---- MODULE Spec2Model ----
(***************************************************************************)
(* The post-processing pipeline of deso-ag: content normalisation,         *)
(* cross-source deduplication, ranking, query matching and term            *)
(* extraction.  Strings are sequences of one-character strings; a Post     *)
(* object is a record and an array of posts is a sequence of references    *)
(* (indices into the input list), as a JavaScript array holds references.  *)
(***************************************************************************)
EXTENDS Integers, Sequences, FiniteSets, TLC

VARIABLES
  pc,               \* position of the operation under way
  posts,            \* the Post[] handed to the operation
  normalizedCache,  \* deduplicatePosts: Map<Post, string>
  result,           \* deduplicatePosts: the accumulating result array
  idx,              \* deduplicatePosts: number of posts the second loop has handled
  sortArg,          \* sortPosts: the `sort` argument
  queryArg,         \* sortPosts / matchesQuery: the `query` argument
  sorted,           \* sortPosts: the array after the call
  mqContent,        \* matchesQuery: the `content` argument
  mqTags,           \* matchesQuery: the `tags` argument
  mqResult,         \* matchesQuery: the returned boolean, as a 0/1-element sequence
  topN,             \* extractTerms: the `topN` argument
  terms,            \* extractTerms: the returned Term[]
  termsResult,      \* extractTermsBySource: the returned TermsResult, as a 0/1-element sequence
  score,            \* computeEngagementScore: the returned number, as a 0/1-element sequence
  results,          \* mergeResults / buildMeta: the FetchResult[] argument
  options,          \* buildMeta: the SearchOptions argument
  meta,             \* buildMeta: the returned meta object, as a 0/1-element sequence
  merged,           \* mergeResults: the returned Post[]
  input,            \* parseSources: the `input` string
  parsed,           \* parseSources: the returned Source[]
  fetchers,         \* aggregate: the promises pushed for options.sources
  settled,          \* aggregate: the order in which the promises settled
  fetchCall,        \* a fetcher: its options and what the servers answer
  fetchResult,      \* a fetcher: the settled promise
  relay,            \* a Nostr relay helper: socket, timer, promise, events
  tokText,          \* tokenize: the `text` argument
  tokenized            \* tokenize: the returned { unigrams, bigrams }

vars == <<pc, posts, normalizedCache, result, idx, sortArg, queryArg, sorted,
          mqContent, mqTags, mqResult, topN, terms, termsResult, score,
          results, options, meta, merged, input, parsed,
          fetchers, settled, fetchCall, fetchResult, relay, tokText, tokenized>>

dedupVars == <<normalizedCache, result, idx>>
sortVars  == <<sortArg, sorted>>
matchVars == <<mqContent, mqTags, mqResult>>
termVars  == <<topN, terms>>
groupVars == <<termsResult>>
scoreVars == <<score>>
metaVars  == <<results, options, meta, merged>>
parseVars == <<input, parsed>>
aggVars   == <<fetchers, settled>>
fetchVars == <<fetchCall, fetchResult>>
relayVars == <<relay>>
tokenVars == <<tokText, tokenized>>

-----------------------------------------------------------------------------
(* Optional values (`x?: T`): the empty sequence is `undefined`.           *)

None == <<>>
Some(v) == <<v>>

\* `(x || 0)` on an optional non-negative count
OrZero(o) == IF o = None THEN 0 ELSE o[1]

Min(a, b) == IF a <= b THEN a ELSE b

Range(s) == {s[i] : i \in DOMAIN s}

-----------------------------------------------------------------------------
(* Characters                                                              *)

UpperMap ==
  ("A" :> "a") @@ ("B" :> "b") @@ ("C" :> "c") @@ ("D" :> "d") @@ ("E" :> "e") @@
  ("F" :> "f") @@ ("G" :> "g") @@ ("H" :> "h") @@ ("I" :> "i") @@ ("J" :> "j") @@
  ("K" :> "k") @@ ("L" :> "l") @@ ("M" :> "m") @@ ("N" :> "n") @@ ("O" :> "o") @@
  ("P" :> "p") @@ ("Q" :> "q") @@ ("R" :> "r") @@ ("S" :> "s") @@ ("T" :> "t") @@
  ("U" :> "u") @@ ("V" :> "v") @@ ("W" :> "w") @@ ("X" :> "x") @@ ("Y" :> "y") @@
  ("Z" :> "z")

LowerLetters == {UpperMap[c] : c \in DOMAIN UpperMap}
Digits == {"0", "1", "2", "3", "4", "5", "6", "7", "8", "9"}

\* the regular-expression class \s
IsSpace(c) == c \in {" ", "\t", "\n", "\r"}

\* the regular-expression class \w
IsWordChar(c) == c \in (DOMAIN UpperMap) \cup LowerLetters \cup Digits \cup {"_"}

ToLowerChar(c) == IF c \in DOMAIN UpperMap THEN UpperMap[c] ELSE c

\* String.prototype.toLowerCase
ToLowerCase(s) == [i \in 1..Len(s) |-> ToLowerChar(s[i])]

\* s.slice(0, n)
Slice(s, n) == SubSeq(s, 1, Min(Len(s), n))

\* does `pat` occur in s starting at position i
OccursAt(s, i, pat) ==
  /\ i + Len(pat) - 1 <= Len(s)
  /\ \A k \in 1..Len(pat) : s[i + k - 1] = pat[k]

\* String.prototype.includes
Includes(s, pat) == \E i \in 1..(Len(s) + 1) : OccursAt(s, i, pat)

\* the least element of a non-empty set of numbers
Least(S) == CHOOSE x \in S : \A y \in S : x <= y

\* the last position of the run of non-whitespace characters that starts at i
RunEnd(s, i) == Least({k \in i..Len(s) : k = Len(s) \/ IsSpace(s[k + 1])})

\* the last position of the run of whitespace characters that starts at i
SpaceEnd(s, i) == Least({k \in i..Len(s) : k = Len(s) \/ ~IsSpace(s[k + 1])})

\* length of the `https?:\/\/` prefix of a match of /https?:\/\/\S+/ at i, 0 if none
UrlPrefixAt(s, i) ==
  IF /\ OccursAt(s, i, <<"h", "t", "t", "p", "s", ":", "/", "/">>)
     /\ i + 8 <= Len(s) /\ ~IsSpace(s[i + 8])
  THEN 8
  ELSE IF /\ OccursAt(s, i, <<"h", "t", "t", "p", ":", "/", "/">>)
          /\ i + 7 <= Len(s) /\ ~IsSpace(s[i + 7])
       THEN 7
       ELSE 0

\* .replace(/https?:\/\/\S+/g, '') from position i on: the text up to the next
\* match is kept, the match is dropped
RECURSIVE StripUrlsFrom(_, _)
StripUrlsFrom(s, i) ==
  LET starts == {k \in i..Len(s) : UrlPrefixAt(s, k) > 0}
  IN  IF starts = {} THEN SubSeq(s, i, Len(s))
      ELSE LET k == Least(starts)
           IN  SubSeq(s, i, k - 1) \o StripUrlsFrom(s, RunEnd(s, k + UrlPrefixAt(s, k)) + 1)

\* .replace(/\s+/g, ' ') from position i on: the text up to the next run of
\* whitespace is kept, the run becomes one blank
RECURSIVE CollapseSpaceFrom(_, _)
CollapseSpaceFrom(s, i) ==
  LET spaces == {k \in i..Len(s) : IsSpace(s[k])}
  IN  IF spaces = {} THEN SubSeq(s, i, Len(s))
      ELSE LET k == Least(spaces)
           IN  SubSeq(s, i, k - 1) \o <<" ">> \o CollapseSpaceFrom(s, SpaceEnd(s, k) + 1)

\* String.prototype.trim
RECURSIVE Trim(_)
Trim(s) ==
  IF s = <<>> THEN s
  ELSE IF IsSpace(s[1]) THEN Trim(Tail(s))
  ELSE IF IsSpace(s[Len(s)]) THEN Trim(SubSeq(s, 1, Len(s) - 1))
  ELSE s

normalizeContent(content) ==
  Trim(CollapseSpaceFrom(StripUrlsFrom(ToLowerCase(content), 1), 1))

-----------------------------------------------------------------------------
(* similarityRatio returns matches / longer.length; the quotient is kept   *)
(* as the pair num/den (1/1 for two empty strings).                        *)

similarityRatio(a, b) ==
  LET shorter == IF Len(a) <= Len(b) THEN a ELSE b
      longer  == IF Len(a) > Len(b) THEN a ELSE b
      matches == Cardinality({i \in 1..Len(shorter) : shorter[i] = longer[i]})
  IN  IF Len(longer) = 0 THEN [num |-> 1, den |-> 1]
      ELSE [num |-> matches, den |-> Len(longer)]

\* `ratio > 0.8`
AboveThreshold(r) == r.num * 10 > 8 * r.den

SliceLen == 200

\* a score counting reposts once
computeEngagementScore_Unweighted(post) ==
  IF post.engagement = None THEN 0
  ELSE OrZero(post.engagement[1].likes)
       + OrZero(post.engagement[1].reposts)
       + OrZero(post.engagement[1].replies)

computeEngagementScore(post) ==
  IF post.engagement = None THEN 0
  ELSE OrZero(post.engagement[1].likes)
       + OrZero(post.engagement[1].reposts) * 2
       + OrZero(post.engagement[1].replies)

-----------------------------------------------------------------------------
(* deduplicatePosts                                                        *)

\* first loop: the cache entry of one post
CacheEntry(post) == Slice(normalizeContent(post.content), SliceLen)

\* FirstMatch without the `existing.source === post.source` skip
FirstMatch_AnySource(ps, cache, res, p) ==
  LET hits == {i \in 1..Len(res) :
                 AboveThreshold(similarityRatio(cache[p], cache[res[i]]))}
  IN  IF hits = {} THEN 0 ELSE CHOOSE i \in hits : \A j \in hits : i <= j

\* inner loop: the first index i of res whose post is from another source and
\* similar to post p; 0 when the loop ends without a break
FirstMatch(ps, cache, res, p) ==
  LET hits == {i \in 1..Len(res) :
                 /\ ps[res[i]].source # ps[p].source
                 /\ AboveThreshold(similarityRatio(cache[p], cache[res[i]]))}
  IN  IF hits = {} THEN 0 ELSE CHOOSE i \in hits : \A j \in hits : i <= j

\* DedupOne keeping the lower-engagement post of a duplicate pair
DedupOne_LowerWins(ps, cache, res, p) ==
  LET m == FirstMatch(ps, cache, res, p)
  IN  IF m = 0 THEN Append(res, p)
      ELSE IF computeEngagementScore(ps[p]) < computeEngagementScore(ps[res[m]])
           THEN [res EXCEPT ![m] = p]
           ELSE res

\* DedupOne moving a replacing post to the end instead of into the slot
DedupOne_MoveToEnd(ps, cache, res, p) ==
  LET m == FirstMatch(ps, cache, res, p)
  IN  IF m = 0 THEN Append(res, p)
      ELSE IF computeEngagementScore(ps[p]) > computeEngagementScore(ps[res[m]])
           THEN Append(SubSeq(res, 1, m - 1) \o SubSeq(res, m + 1, Len(res)), p)
           ELSE res

\* DedupOne letting the candidate win at equal engagement
DedupOne_TieReplaces(ps, cache, res, p) ==
  LET m == FirstMatch(ps, cache, res, p)
  IN  IF m = 0 THEN Append(res, p)
      ELSE IF computeEngagementScore(ps[p]) >= computeEngagementScore(ps[res[m]])
           THEN [res EXCEPT ![m] = p]
           ELSE res

\* one iteration of the second loop, for post p
DedupOne(ps, cache, res, p) ==
  LET m == FirstMatch(ps, cache, res, p)
  IN  IF m = 0 THEN Append(res, p)
      ELSE IF computeEngagementScore(ps[p]) > computeEngagementScore(ps[res[m]])
           THEN [res EXCEPT ![m] = p]
           ELSE res

BuildCache ==
  /\ pc = "dedup_cache"
  /\ normalizedCache' = [p \in 1..Len(posts) |-> CacheEntry(posts[p])]
  /\ pc' = IF Len(posts) = 0 THEN "dedup_done" ELSE "dedup_loop"
  /\ UNCHANGED <<posts, result, idx, sortVars, queryArg, matchVars, termVars,
               groupVars, scoreVars, metaVars, parseVars,
               aggVars, fetchVars, relayVars, tokenVars>>

DedupStep ==
  /\ pc = "dedup_loop"
  /\ idx < Len(posts)
  /\ result' = DedupOne(posts, normalizedCache, result, idx + 1)
  /\ idx' = idx + 1
  /\ pc' = IF idx + 1 = Len(posts) THEN "dedup_done" ELSE "dedup_loop"
  /\ UNCHANGED <<posts, normalizedCache, sortVars, queryArg, matchVars, termVars,
               groupVars, scoreVars, metaVars, parseVars,
               aggVars, fetchVars, relayVars, tokenVars>>

-----------------------------------------------------------------------------
(* matchesQuery                                                            *)

\* String.prototype.split(/\s+/) from position i on, `cur` being the piece under way
RECURSIVE SplitSpaceFrom(_, _, _)
SplitSpaceFrom(s, i, cur) ==
  IF i > Len(s) THEN <<cur>>
  ELSE IF IsSpace(s[i])
       THEN <<cur>> \o SplitSpaceFrom(s, SpaceEnd(s, i) + 1, <<>>)
       ELSE SplitSpaceFrom(s, i + 1, Append(cur, s[i]))

NonEmpty(t) == Len(t) > 0

\* query.toLowerCase().split(/\s+/).filter(t => t.length > 0)
QueryTerms(query) == SelectSeq(SplitSpaceFrom(ToLowerCase(query), 1, <<>>), NonEmpty)

\* matchesQuery with OR across the terms
matchesQuery_AnyTerm(content, tags, query) ==
  LET qterms == QueryTerms(query)
      lowerContent == ToLowerCase(content)
      lowerTags == [k \in 1..Len(tags) |-> ToLowerCase(tags[k])]
  IN  IF Len(qterms) = 0 THEN TRUE
      ELSE \E t \in 1..Len(qterms) :
             \/ Includes(lowerContent, qterms[t])
             \/ \E k \in 1..Len(lowerTags) : Includes(lowerTags[k], qterms[t])

\* matchesQuery looking for the terms in the content only
matchesQuery_NoTags(content, tags, query) ==
  LET qterms == QueryTerms(query)
      lowerContent == ToLowerCase(content)
  IN  IF Len(qterms) = 0 THEN TRUE
      ELSE \A t \in 1..Len(qterms) : Includes(lowerContent, qterms[t])

matchesQuery(content, tags, query) ==
  LET qterms == QueryTerms(query)
      lowerContent == ToLowerCase(content)
      lowerTags == [k \in 1..Len(tags) |-> ToLowerCase(tags[k])]
  IN  IF Len(qterms) = 0 THEN TRUE
      ELSE \A t \in 1..Len(qterms) :
             \/ Includes(lowerContent, qterms[t])
             \/ \E k \in 1..Len(lowerTags) : Includes(lowerTags[k], qterms[t])

MatchesQuery ==
  /\ pc = "match_call"
  /\ mqResult' = Some(matchesQuery(mqContent, mqTags, queryArg[1]))
  /\ pc' = "match_done"
  /\ UNCHANGED <<posts, dedupVars, sortVars, queryArg, mqContent, mqTags, termVars,
               groupVars, scoreVars, metaVars, parseVars,
               aggVars, fetchVars, relayVars, tokenVars>>

-----------------------------------------------------------------------------
(* sortPosts                                                               *)

\* `a.tags || []`
TagsOrEmpty(post) == IF post.tags = None THEN <<>> ELSE post.tags[1]

\* the 'recent' comparator written as a yes/no test: never 0
CmpRecent_NeverEqual(a, b) == IF a.timestamp <= b.timestamp THEN 1 ELSE -1

\* the 'recent' comparator, oldest first
CmpRecent_Ascending(a, b) == a.timestamp - b.timestamp

\* the comparator of case 'recent'
CmpRecent(a, b) == b.timestamp - a.timestamp

\* the 'engagement' comparator breaking ties oldest first
CmpEngagement_OldestFirst(a, b) ==
  LET diff == computeEngagementScore(b) - computeEngagementScore(a)
  IN  IF diff # 0 THEN diff ELSE a.timestamp - b.timestamp

\* the comparator of case 'engagement'
CmpEngagement(a, b) ==
  LET diff == computeEngagementScore(b) - computeEngagementScore(a)
  IN  IF diff # 0 THEN diff ELSE b.timestamp - a.timestamp

\* the 'relevance' comparator testing the query match after the engagement
CmpRelevance_EngagementFirst(a, b, query) ==
  LET aMatches == matchesQuery(a.content, TagsOrEmpty(a), query)
      bMatches == matchesQuery(b.content, TagsOrEmpty(b), query)
      diff == computeEngagementScore(b) - computeEngagementScore(a)
  IN  IF diff # 0 THEN diff
      ELSE IF aMatches # bMatches THEN (IF aMatches THEN -1 ELSE 1)
      ELSE b.timestamp - a.timestamp

\* the comparator of case 'relevance' with a query
CmpRelevance(a, b, query) ==
  LET aMatches == matchesQuery(a.content, TagsOrEmpty(a), query)
      bMatches == matchesQuery(b.content, TagsOrEmpty(b), query)
      diff == computeEngagementScore(b) - computeEngagementScore(a)
  IN  IF aMatches # bMatches THEN (IF aMatches THEN -1 ELSE 1)
      ELSE IF diff # 0 THEN diff
      ELSE b.timestamp - a.timestamp

\* the 'relevance' fallback comparing timestamps only
CmpFallback_TimestampOnly(a, b) == b.timestamp - a.timestamp

\* the comparator of case 'relevance' without a query
CmpFallback(a, b) ==
  LET diff == computeEngagementScore(b) - computeEngagementScore(a)
  IN  IF diff # 0 THEN diff ELSE b.timestamp - a.timestamp

Compare(kind, query, a, b) ==
  CASE kind = "recent"     -> CmpRecent(a, b)
    [] kind = "engagement" -> CmpEngagement(a, b)
    [] kind = "relevance"  -> CmpRelevance(a, b, query)
    [] kind = "fallback"   -> CmpFallback(a, b)

\* Array.prototype.sort is stable: reference x goes behind the last element of
\* the sorted prefix `out` that the comparator does not place after x
RECURSIVE InsertSorted(_, _, _, _, _)
InsertSorted(ps, kind, query, out, x) ==
  IF out = <<>> THEN <<x>>
  ELSE IF Compare(kind, query, ps[out[Len(out)]], ps[x]) <= 0
       THEN Append(out, x)
       ELSE Append(InsertSorted(ps, kind, query, SubSeq(out, 1, Len(out) - 1), x),
                   out[Len(out)])

\* posts.sort(comparator) on the array `arr` of references
RECURSIVE ArraySort(_, _, _, _)
ArraySort(ps, kind, query, arr) ==
  IF arr = <<>> THEN <<>>
  ELSE InsertSorted(ps, kind, query,
                    ArraySort(ps, kind, query, SubSeq(arr, 1, Len(arr) - 1)),
                    arr[Len(arr)])

\* `if (query)` on an optional string
Truthy(query) == query # None /\ query[1] # <<>>

sortPosts(ps, arr, sort, query) ==
  CASE sort = "recent"     -> ArraySort(ps, "recent", <<>>, arr)
    [] sort = "engagement" -> ArraySort(ps, "engagement", <<>>, arr)
    [] sort = "relevance"  ->
         IF Truthy(query) THEN ArraySort(ps, "relevance", query[1], arr)
         ELSE ArraySort(ps, "fallback", <<>>, arr)

SortOrders == {"recent", "engagement", "relevance"}

SortPosts ==
  /\ pc = "sort_call"
  /\ sorted' = sortPosts(posts, [i \in 1..Len(posts) |-> i], sortArg, queryArg)
  /\ pc' = "sort_done"
  /\ UNCHANGED <<posts, dedupVars, sortArg, queryArg, matchVars, termVars,
               groupVars, scoreVars, metaVars, parseVars,
               aggVars, fetchVars, relayVars, tokenVars>>

-----------------------------------------------------------------------------
(* Term extraction                                                         *)

STOP_WORDS ==
  {
    <<"t","h","e">>, <<"b","e">>, <<"t","o">>, <<"o","f">>, <<"a","n","d">>, <<"a">>,
    <<"i","n">>, <<"t","h","a","t">>, <<"h","a","v","e">>, <<"i">>, <<"i","t">>,
    <<"f","o","r">>, <<"n","o","t">>, <<"o","n">>, <<"w","i","t","h">>, <<"h","e">>,
    <<"a","s">>, <<"y","o","u">>, <<"d","o">>, <<"a","t">>, <<"t","h","i","s">>,
    <<"b","u","t">>, <<"h","i","s">>, <<"b","y">>, <<"f","r","o","m">>, <<"t","h","e","y">>,
    <<"w","e">>, <<"s","a","y">>, <<"h","e","r">>, <<"s","h","e">>, <<"o","r">>, <<"a","n">>,
    <<"w","i","l","l">>, <<"m","y">>, <<"o","n","e">>, <<"a","l","l">>,
    <<"w","o","u","l","d">>, <<"t","h","e","r","e">>, <<"t","h","e","i","r">>,
    <<"w","h","a","t">>, <<"s","o">>, <<"u","p">>, <<"o","u","t">>, <<"i","f">>,
    <<"a","b","o","u","t">>, <<"w","h","o">>, <<"g","e","t">>, <<"w","h","i","c","h">>,
    <<"g","o">>, <<"m","e">>, <<"w","h","e","n">>, <<"m","a","k","e">>, <<"c","a","n">>,
    <<"l","i","k","e">>, <<"t","i","m","e">>, <<"n","o">>, <<"j","u","s","t">>,
    <<"h","i","m">>, <<"k","n","o","w">>, <<"t","a","k","e">>, <<"p","e","o","p","l","e">>,
    <<"i","n","t","o">>, <<"y","e","a","r">>, <<"y","o","u","r">>, <<"g","o","o","d">>,
    <<"s","o","m","e">>, <<"c","o","u","l","d">>, <<"t","h","e","m">>, <<"s","e","e">>,
    <<"o","t","h","e","r">>, <<"t","h","a","n">>, <<"t","h","e","n">>, <<"n","o","w">>,
    <<"l","o","o","k">>, <<"o","n","l","y">>, <<"c","o","m","e">>, <<"i","t","s">>,
    <<"o","v","e","r">>, <<"t","h","i","n","k">>, <<"a","l","s","o">>, <<"b","a","c","k">>,
    <<"a","f","t","e","r">>, <<"u","s","e">>, <<"t","w","o">>, <<"h","o","w">>,
    <<"o","u","r">>, <<"w","o","r","k">>, <<"f","i","r","s","t">>, <<"w","e","l","l">>,
    <<"w","a","y">>, <<"e","v","e","n">>, <<"n","e","w">>, <<"w","a","n","t">>,
    <<"b","e","c","a","u","s","e">>, <<"a","n","y">>, <<"t","h","e","s","e">>,
    <<"g","i","v","e">>, <<"d","a","y">>, <<"m","o","s","t">>, <<"u","s">>, <<"a","r","e">>,
    <<"h","a","s">>, <<"w","a","s">>, <<"b","e","e","n">>, <<"i","s">>, <<"a","m">>,
    <<"w","e","r","e">>, <<"d","i","d">>, <<"h","a","d">>, <<"d","o","e","s">>,
    <<"b","e","i","n","g">>, <<"g","o","t">>, <<"r","e","a","l","l","y">>, <<"v","e","r","y">>,
    <<"m","u","c","h">>, <<"m","o","r","e">>, <<"t","o","o">>, <<"s","t","i","l","l">>,
    <<"o","w","n">>, <<"h","e","r","e">>, <<"w","h","y">>, <<"d","o","n">>,
    <<"d","i","d","n">>, <<"i","s","n">>, <<"a","r","e","n">>, <<"w","o","n">>,
    <<"w","o","u","l","d","n">>, <<"s","h","o","u","l","d","n">>, <<"c","o","u","l","d","n">>,
    <<"l","e","t">>, <<"t","h","i","n","g">>, <<"t","h","i","n","g","s">>, <<"l","o","t">>,
    <<"g","o","i","n","g">>, <<"n","e","e","d">>, <<"r","i","g","h","t">>, <<"b","i","g">>,
    <<"l","o","n","g">>, <<"m","a","n">>, <<"o","l","d">>, <<"g","r","e","a","t">>,
    <<"l","i","t","t","l","e">>, <<"s","u","r","e">>, <<"k","e","e","p">>,
    <<"s","h","o","u","l","d">>, <<"t","h","o","s","e">>, <<"m","a","d","e">>,
    <<"s","a","i","d">>, <<"l","o","l">>, <<"y","e","s">>, <<"y","e","a","h">>,
    <<"n","a","h">>, <<"o","k","a","y">>, <<"a","c","t","u","a","l","l","y">>,
    <<"e","v","e","r","y">>, <<"a","l","r","e","a","d","y">>, <<"m","a","n","y">>,
    <<"m","a","y">>, <<"m","i","g","h","t">>, <<"m","u","s","t">>, <<"t","h","o","u","g","h">>,
    <<"t","h","r","o","u","g","h">>, <<"w","h","i","l","e">>, <<"w","h","e","r","e">>,
    <<"d","o","w","n">>, <<"o","f","f">>, <<"b","e","e","n">>, <<"b","e","f","o","r","e">>,
    <<"b","e","t","w","e","e","n">>, <<"b","o","t","h">>, <<"e","a","c","h">>, <<"f","e","w">>,
    <<"s","a","m","e">>, <<"s","u","c","h">>, <<"s","i","n","c","e">>, <<"n","e","v","e","r">>,
    <<"a","l","w","a","y","s">>, <<"l","a","s","t">>, <<"a","g","a","i","n">>,
    <<"a","n","o","t","h","e","r">>, <<"a","r","o","u","n","d">>, <<"p","a","r","t">>,
    <<"p","u","t">>, <<"s","e","t">>, <<"p","e","r">>, <<"t","r","y">>,
    <<"d","o","i","n","g">>, <<"d","o","n","e">>, <<"g","e","t","t","i","n","g">>,
    <<"m","a","k","i","n","g">>, <<"s","o","m","e","t","h","i","n","g">>,
    <<"a","n","y","t","h","i","n","g">>, <<"e","v","e","r","y","t","h","i","n","g">>,
    <<"n","o","t","h","i","n","g">>, <<"s","o","m","e","o","n","e">>,
    <<"a","n","y","o","n","e">>, <<"e","v","e","r","y","o","n","e">>,
    <<"n","o","b","o","d","y">>, <<"g","o","n","n","a">>, <<"w","a","n","n","a">>,
    <<"g","o","t","t","a">>, <<"i","m","a">>, <<"i","m","o">>, <<"t","b","h">>,
    <<"i","d","k">>
  }

\* .replace(/'s\b/g, '') from position i on
RECURSIVE StripPossessiveFrom(_, _)
StripPossessiveFrom(s, i) ==
  IF i > Len(s) THEN <<>>
  ELSE IF /\ OccursAt(s, i, <<"'", "s">>)
          /\ (i + 2 > Len(s) \/ ~IsWordChar(s[i + 2]))
       THEN StripPossessiveFrom(s, i + 2)
       ELSE <<s[i]>> \o StripPossessiveFrom(s, i + 1)

\* .replace(/[^\w\s]/g, ' ')
PunctuationToSpace(s) ==
  [i \in 1..Len(s) |-> IF IsWordChar(s[i]) \/ IsSpace(s[i]) THEN s[i] ELSE " "]

stripPunctuation(text) ==
  Trim(CollapseSpaceFrom(PunctuationToSpace(StripPossessiveFrom(text, 1)), 1))

\* String.prototype.split(' ') from position i on, `cur` being the piece under way
RECURSIVE SplitBlankFrom(_, _, _)
SplitBlankFrom(s, i, cur) ==
  IF i > Len(s) THEN <<cur>>
  ELSE IF s[i] = " "
       THEN <<cur>> \o SplitBlankFrom(s, i + 1, <<>>)
       ELSE SplitBlankFrom(s, i + 1, Append(cur, s[i]))

MinTokenLen == 3

LongEnough(w) == Len(w) >= MinTokenLen
NotStopWord(w) == w \notin STOP_WORDS

\* a bigram loop that also skips a pair with one stop word
RECURSIVE BigramsFrom_EitherStop(_, _)
BigramsFrom_EitherStop(words, i) ==
  IF i >= Len(words) THEN <<>>
  ELSE IF words[i] \in STOP_WORDS \/ words[i + 1] \in STOP_WORDS
       THEN BigramsFrom_EitherStop(words, i + 1)
       ELSE <<words[i] \o <<" ">> \o words[i + 1]>> \o BigramsFrom_EitherStop(words, i + 1)

\* the bigram loop from word i on
RECURSIVE BigramsFrom(_, _)
BigramsFrom(words, i) ==
  IF i >= Len(words) THEN <<>>
  ELSE IF words[i] \in STOP_WORDS /\ words[i + 1] \in STOP_WORDS
       THEN BigramsFrom(words, i + 1)
       ELSE <<words[i] \o <<" ">> \o words[i + 1]>> \o BigramsFrom(words, i + 1)

tokenize(text) ==
  LET clean == stripPunctuation(text)
      words == SelectSeq(SplitBlankFrom(clean, 1, <<>>), LongEnough)
  IN  [unigrams |-> SelectSeq(words, NotStopWord), bigrams |-> BigramsFrom(words, 1)]

\* Math.log2, exact on the powers of two, which are its only arguments here
RECURSIVE Log2(_)
Log2(n) == IF n <= 1 THEN 0 ELSE 1 + Log2(n \div 2)

\* weights are kept in thousandths
WeightUnit == 1000

\* 1 + Math.log2(1 + engagementScore)
PostWeight(post) == WeightUnit * (1 + Log2(1 + computeEngagementScore(post)))

MinContentLen == 10

\* tokenWeights is a Map: a sequence of entries in insertion order
RECURSIVE Accumulate(_, _, _, _, _)
Accumulate(tw, tokens, i, weight, id) ==
  IF i > Len(tokens) THEN tw
  ELSE LET hit == {k \in 1..Len(tw) : tw[k].token = tokens[i]}
           next == IF hit = {}
                   THEN Append(tw, [token |-> tokens[i], weight |-> weight, postIds |-> {id}])
                   ELSE LET k == CHOOSE k \in hit : TRUE
                        IN  [tw EXCEPT ![k] = [token |-> @.token,
                                               weight |-> @.weight + weight,
                                               postIds |-> @.postIds \cup {id}]]
       IN  Accumulate(next, tokens, i + 1, weight, id)

\* (post.tags || []).map(t => t.toLowerCase()).filter(t => t.length >= 3)
TagTokens(post) ==
  LET tags == IF post.tags = None THEN <<>> ELSE post.tags[1]
  IN  SelectSeq([k \in 1..Len(tags) |-> ToLowerCase(tags[k])], LongEnough)

\* the body of the loop over the posts, for one post
AccumulatePost(tw, post) ==
  LET normalized == normalizeContent(post.content)
      tk == tokenize(normalized)
      allUnigrams == tk.unigrams \o TagTokens(post)
  IN  IF Len(normalized) < MinContentLen THEN tw
      ELSE Accumulate(Accumulate(tw, allUnigrams, 1, PostWeight(post), post.id),
                      tk.bigrams, 1, PostWeight(post), post.id)

RECURSIVE AccumulatePosts(_, _)
AccumulatePosts(ps, n) ==
  IF n = 0 THEN <<>> ELSE AccumulatePost(AccumulatePosts(ps, n - 1), ps[n])

MinPostIds == 2

\* the threshold accepting a token of a single post
Eligible_OnePost(entry) == Cardinality(entry.postIds) >= 1

\* `entry.postIds.size >= 2`
Eligible(entry) == Cardinality(entry.postIds) >= MinPostIds

IsBigram(token) == \E i \in 1..Len(token) : token[i] = " "

\* a comparator preferring the unigram at equal weight
CmpTerms_UnigramFirst(a, b) ==
  LET diff == b.weight - a.weight
  IN  IF diff # 0 THEN diff
      ELSE (IF IsBigram(a.token) THEN 1 ELSE 0) - (IF IsBigram(b.token) THEN 1 ELSE 0)

\* the comparator of filtered.sort
CmpTerms(a, b) ==
  LET diff == b.weight - a.weight
  IN  IF diff # 0 THEN diff
      ELSE (IF IsBigram(b.token) THEN 1 ELSE 0) - (IF IsBigram(a.token) THEN 1 ELSE 0)

RECURSIVE InsertTerm(_, _)
InsertTerm(out, x) ==
  IF out = <<>> THEN <<x>>
  ELSE IF CmpTerms(out[Len(out)], x) <= 0
       THEN Append(out, x)
       ELSE Append(InsertTerm(SubSeq(out, 1, Len(out) - 1), x), out[Len(out)])

\* filtered.sort(comparator), stable
RECURSIVE SortTerms(_)
SortTerms(arr) ==
  IF arr = <<>> THEN <<>>
  ELSE InsertTerm(SortTerms(SubSeq(arr, 1, Len(arr) - 1)), arr[Len(arr)])

\* Math.round(entry.weight * 10) / 10, in tenths
RoundScore(weight) == (weight * 10 + WeightUnit \div 2) \div WeightUnit

\* a selection that never suppresses anything
Suppress_Nothing(suppressed, token) == suppressed

\* `if (token.includes(' ')) for (const part of token.split(' ')) suppressed.add(part)`
Suppress(suppressed, token) ==
  IF IsBigram(token)
  THEN suppressed \cup Range(SplitBlankFrom(token, 1, <<>>))
  ELSE suppressed

\* the selection loop from entry i on
RECURSIVE SelectTerms(_, _, _, _, _)
SelectTerms(filtered, i, res, suppressed, n) ==
  IF i > Len(filtered) THEN res
  ELSE IF filtered[i].token \in suppressed
       THEN SelectTerms(filtered, i + 1, res, suppressed, n)
       ELSE LET token == filtered[i].token
                res2 == Append(res, [token |-> token,
                                     score |-> RoundScore(filtered[i].weight),
                                     postCount |-> Cardinality(filtered[i].postIds)])
                sup2 == Suppress(suppressed, token)
            IN  IF Len(res2) >= n THEN res2
                ELSE SelectTerms(filtered, i + 1, res2, sup2, n)

DefaultTopN == 3

extractTerms(ps, n) ==
  LET tokenWeights == AccumulatePosts(ps, Len(ps))
      filtered == SortTerms(SelectSeq(tokenWeights, Eligible))
  IN  SelectTerms(filtered, 1, <<>>, {}, IF n = None THEN DefaultTopN ELSE n[1])

ExtractTerms ==
  /\ pc = "terms_call"
  /\ terms' = extractTerms(posts, topN)
  /\ pc' = "terms_done"
  /\ UNCHANGED <<posts, dedupVars, sortVars, queryArg, matchVars, topN,
               groupVars, scoreVars, metaVars, parseVars,
               aggVars, fetchVars, relayVars, tokenVars>>

-----------------------------------------------------------------------------
(* mergeResults and buildMeta (pipeline.ts).  A FetchResult is a record    *)
(* [posts, source, error]; the fetchedAt instant of the meta object is     *)
(* left out.                                                               *)

\* the second loop of deduplicatePosts over the first n posts
RECURSIVE DedupLoop(_, _, _)
DedupLoop(ps, cache, n) ==
  IF n = 0 THEN <<>> ELSE DedupOne(ps, cache, DedupLoop(ps, cache, n - 1), n)

deduplicatePosts(ps) ==
  DedupLoop(ps, [p \in 1..Len(ps) |-> CacheEntry(ps[p])], Len(ps))

\* `for (const result of results) allPosts.push(...result.posts)`
RECURSIVE AllPosts(_, _)
AllPosts(rs, n) ==
  IF n = 0 THEN <<>> ELSE AllPosts(rs, n - 1) \o rs[n].posts

mergeResults(rs, sort, query) ==
  LET allPosts == AllPosts(rs, Len(rs))
      deduped == sortPosts(allPosts, deduplicatePosts(allPosts), sort, query)
  IN  [k \in 1..Len(deduped) |-> allPosts[deduped[k]]]

\* `results.reduce((sum, r) => sum + r.posts.length, 0)`
RECURSIVE TotalPosts(_, _)
TotalPosts(rs, n) ==
  IF n = 0 THEN 0 ELSE TotalPosts(rs, n - 1) + Len(rs[n].posts)

\* a meta object that leaves the posts of a failed source out of the counts
buildMeta_FailedUncounted(rs, opts) ==
  LET ok == SelectSeq(rs, LAMBDA r : r.error = None)
  IN  [query |-> opts.query,
       sources |-> [k \in 1..Len(rs) |->
                      [name |-> rs[k].source,
                       count |-> IF rs[k].error = None THEN Len(rs[k].posts) ELSE 0,
                       error |-> rs[k].error]],
       timeframe |-> opts.timeframe,
       totalPosts |-> TotalPosts(ok, Len(ok))]

buildMeta(rs, opts) ==
  [query |-> opts.query,
   sources |-> [k \in 1..Len(rs) |->
                  [name |-> rs[k].source, count |-> Len(rs[k].posts), error |-> rs[k].error]],
   timeframe |-> opts.timeframe,
   totalPosts |-> TotalPosts(rs, Len(rs))]

MergeResults ==
  /\ pc = "merge_call"
  /\ merged' = mergeResults(results, sortArg, queryArg)
  /\ pc' = "meta_call"
  /\ UNCHANGED <<posts, dedupVars, sortVars, queryArg, matchVars, termVars,
               groupVars, scoreVars, results, options, meta, parseVars,
               aggVars, fetchVars, relayVars, tokenVars>>

BuildMeta ==
  /\ pc = "meta_call"
  /\ meta' = Some(buildMeta(results, options[1]))
  /\ pc' = "meta_done"
  /\ UNCHANGED <<posts, dedupVars, sortVars, queryArg, matchVars, termVars,
               groupVars, scoreVars, results, options, merged, parseVars,
               aggVars, fetchVars, relayVars, tokenVars>>

-----------------------------------------------------------------------------
(* parseSources (pipeline.ts)                                              *)

\* input.split(','), from position i on, cur being the entry under way
RECURSIVE SplitCommaFrom(_, _, _)
SplitCommaFrom(s, i, cur) ==
  IF i > Len(s) THEN <<cur>>
  ELSE IF s[i] = ","
       THEN <<cur>> \o SplitCommaFrom(s, i + 1, <<>>)
       ELSE SplitCommaFrom(s, i + 1, Append(cur, s[i]))

\* `const valid: Source[] = ['farcaster', 'lens', 'nostr']`
valid ==
  << <<"f", "a", "r", "c", "a", "s", "t", "e", "r">>,
     <<"l", "e", "n", "s">>,
     <<"n", "o", "s", "t", "r">> >>

\* input.split(',').map(s => s.trim().toLowerCase())
SourceEntries(text) ==
  LET parts == SplitCommaFrom(text, 1, <<>>)
  IN  [k \in 1..Len(parts) |-> ToLowerCase(Trim(parts[k]))]

IsValidSource(x) == x \in Range(valid)

parseSources(text) == SelectSeq(SourceEntries(text), IsValidSource)

ParseSources ==
  /\ pc = "parse_call"
  /\ parsed' = parseSources(input)
  /\ pc' = "parse_done"
  /\ UNCHANGED <<posts, dedupVars, sortVars, queryArg, matchVars, termVars,
               groupVars, scoreVars, metaVars, input,
               aggVars, fetchVars, relayVars, tokenVars>>

-----------------------------------------------------------------------------
(* computeEngagementScore called on its own (formatters/output.ts)         *)

ComputeEngagementScore ==
  /\ pc = "score_call"
  /\ score' = Some(computeEngagementScore(posts[1]))
  /\ pc' = "score_done"
  /\ UNCHANGED <<posts, dedupVars, sortVars, queryArg, matchVars, termVars,
               groupVars, metaVars, parseVars,
               aggVars, fetchVars, relayVars, tokenVars>>

-----------------------------------------------------------------------------
(* extractTermsBySource (terms.ts).  The timeframe label and the           *)
(* analyzedAt instant of the result are copied through and are left out.   *)

\* the keys of the Map bySource after the first n posts, in insertion order
RECURSIVE SourceKeys(_, _)
SourceKeys(ps, n) ==
  IF n = 0 THEN <<>>
  ELSE LET keys == SourceKeys(ps, n - 1)
       IN  IF ps[n].source \in Range(keys) THEN keys ELSE Append(keys, ps[n].source)

\* bySource.get(source): the posts of that source, in input order
SourcePosts(ps, source) == SelectSeq(ps, LAMBDA p : p.source = source)

\* a group whose terms are taken from all the posts
SourceTermsOf_AllPosts(ps, source, n) ==
  [source |-> source,
   postCount |-> Len(SourcePosts(ps, source)),
   terms |-> extractTerms(ps, n)]

\* `{ source, postCount: sourcePosts.length, terms: extractTerms(sourcePosts, topN) }`
SourceTermsOf(ps, source, n) ==
  [source |-> source,
   postCount |-> Len(SourcePosts(ps, source)),
   terms |-> extractTerms(SourcePosts(ps, source), n)]

sourceOrder == <<"farcaster", "lens", "nostr", "bluesky">>

\* Array.prototype.indexOf, zero-based, -1 when absent
IndexOf(arr, x) ==
  IF \E i \in DOMAIN arr : arr[i] = x
  THEN (CHOOSE i \in DOMAIN arr : arr[i] = x /\ \A j \in 1..(i - 1) : arr[j] # x) - 1
  ELSE -1

\* the comparator of sourceTerms.sort
CmpSource(a, b) == IndexOf(sourceOrder, a.source) - IndexOf(sourceOrder, b.source)

RECURSIVE InsertGroup(_, _)
InsertGroup(out, x) ==
  IF out = <<>> THEN <<x>>
  ELSE IF CmpSource(out[Len(out)], x) <= 0
       THEN Append(out, x)
       ELSE Append(InsertGroup(SubSeq(out, 1, Len(out) - 1), x), out[Len(out)])

\* sourceTerms.sort(comparator), stable
RECURSIVE SortGroups(_)
SortGroups(arr) ==
  IF arr = <<>> THEN <<>>
  ELSE InsertGroup(SortGroups(SubSeq(arr, 1, Len(arr) - 1)), arr[Len(arr)])

extractTermsBySource(ps, n) ==
  LET keys == SourceKeys(ps, Len(ps))
      sourceTerms == [k \in 1..Len(keys) |-> SourceTermsOf(ps, keys[k], n)]
  IN  [bySource |-> SortGroups(sourceTerms), overall |-> extractTerms(ps, n)]

ExtractTermsBySource ==
  /\ pc = "groups_call"
  /\ termsResult' = Some(extractTermsBySource(posts, topN))
  /\ pc' = "groups_done"
  /\ UNCHANGED <<posts, dedupVars, sortVars, queryArg, matchVars, termVars,
               scoreVars, metaVars, parseVars,
               aggVars, fetchVars, relayVars, tokenVars>>

-----------------------------------------------------------------------------
(* Inputs                                                                  *)

MaxPosts == 3

Sources == {"farcaster", "lens", "nostr"}

Engagement(l, r, c) == Some([likes |-> l, reposts |-> r, replies |-> c])

\* three contents X, Y, Z whose normal forms are abcdef, abcdeg, abcdhg:
\* X~Y and Y~Z are similar (5/6), X and Z are not (4/6)
DedupContents ==
  { <<"a", "b", "c", "d", "e", "f">>,
    <<"A", "B", "C", "D", "E", "g">>,
    <<" ", "a", "b", "c", "d", "h", "g", " ", "h", "t", "t", "p", ":", "/", "/", "x">> }

DedupEngagements == { None, Engagement(None, Some(1), None) }

MkPost(id, source, content, timestamp, engagement, tags) ==
  [id |-> id, source |-> source, content |-> content, timestamp |-> timestamp,
   engagement |-> engagement, tags |-> tags]

DedupPostAt(i) ==
  { MkPost(i, s, c, 0, e, None) : s \in Sources, c \in DedupContents, e \in DedupEngagements }

IdleDedup == normalizedCache = <<>> /\ result = <<>> /\ idx = 0
IdleSort  == sortArg = "none" /\ sorted = <<>>
IdleMatch == mqContent = <<>> /\ mqTags = <<>> /\ mqResult = <<>>
IdleTerms == topN = None /\ terms = <<>>
IdleGroup == termsResult = <<>>
IdleScore == score = <<>>
IdleMeta  == results = <<>> /\ options = <<>> /\ meta = <<>> /\ merged = <<>>
IdleParse == input = <<>> /\ parsed = <<>>
IdleAgg    == fetchers = <<>> /\ settled = <<>>
IdleFetch  == fetchCall = <<>> /\ fetchResult = <<>>
IdleRelay  == relay = <<>>
IdleTokens == tokText = <<>> /\ tokenized = <<>>
IdleLater  == IdleAgg /\ IdleFetch /\ IdleRelay /\ IdleTokens
IdleRest  == IdleGroup /\ IdleScore /\ IdleMeta /\ IdleParse /\ IdleLater

InitDedup ==
  /\ pc = "dedup_cache"
  /\ \E n \in 0..MaxPosts : posts \in [1..n -> UNION {DedupPostAt(i) : i \in 1..n}]
  /\ \A i \in DOMAIN posts : posts[i].id = i
  /\ IdleDedup /\ IdleSort /\ IdleMatch /\ IdleTerms /\ IdleRest
  /\ queryArg = None

NextDedup == BuildCache \/ DedupStep

SpecDedup == InitDedup /\ [][NextDedup]_vars

-----------------------------------------------------------------------------
(* Inputs of sortPosts                                                     *)

MaxSortPosts == 3

SortTimestamps == {1, 2}

cEth == <<"E", "t", "h">>
cSol == <<"s", "o", "l">>
qEth == <<"e", "t", "h">>

\* content and tags: "Eth" untagged, "sol" untagged, "sol" tagged defi, WETH
SortBodies ==
  { [content |-> cEth, tags |-> None],
    [content |-> cSol, tags |-> None],
    [content |-> cSol, tags |-> Some(<<<<"d", "e", "f", "i">>, <<"W", "E", "T", "H">>>>)] }

SortPostAt(i) ==
  { MkPost(i, "farcaster", b.content, t, e, b.tags) :
      b \in SortBodies, t \in SortTimestamps,
      e \in {None, Engagement(Some(1), None, None)} }

SortQueries == {None, Some(<<>>), Some(qEth), Some(<<" ", "e", "t", "h", " ", "s", "o">>)}

InitSort ==
  /\ pc = "sort_call"
  /\ \E n \in 0..MaxSortPosts : posts \in [1..n -> UNION {SortPostAt(i) : i \in 1..n}]
  /\ \A i \in DOMAIN posts : posts[i].id = i
  /\ sortArg \in SortOrders
  /\ queryArg \in (IF sortArg = "relevance" THEN SortQueries ELSE {None})
  /\ sorted = <<>>
  /\ IdleDedup /\ IdleMatch /\ IdleTerms /\ IdleRest

NextSort == SortPosts

SpecSort == InitSort /\ [][NextSort]_vars

-----------------------------------------------------------------------------
(* Inputs of matchesQuery                                                  *)

MaxQueryLen == 3
MaxContentLen == 2
MaxTags == 2

\* the strings over alphabet A of length at most n
StringsUpTo(A, n) == UNION {[1..k -> A] : k \in 0..n}

MatchTagPool == { <<"a">>, <<"a", "b">>, <<"B">> }

InitMatch ==
  /\ pc = "match_call"
  /\ mqContent \in StringsUpTo({"a", "b", "A", " "}, MaxContentLen)
  /\ mqTags \in StringsUpTo(MatchTagPool, MaxTags)
  /\ \E q \in StringsUpTo({"a", "b", "A", " "}, MaxQueryLen) : queryArg = Some(q)
  /\ mqResult = None
  /\ posts = <<>>
  /\ IdleDedup /\ IdleSort /\ IdleTerms /\ IdleRest

NextMatch == MatchesQuery

SpecMatch == InitMatch /\ [][NextMatch]_vars

-----------------------------------------------------------------------------
(* Inputs of extractTerms                                                  *)

MaxTermPosts == 3
MaxTopN == 2

\* the content and tags of the posts:
\*   "Btc eth's moon"         without tags
\*   "the btc, eth http://x"  tagged SOL, ab
\*   "sol sol sol gm"         without tags
\*   "gm btc"                 tagged SOL, ab (too short to be analysed)
TermBodies ==
  { [content |-> <<"B", "t", "c", " ", "e", "t", "h", "'", "s", " ", "m", "o", "o", "n">>,
     tags |-> None],
    [content |-> <<"t", "h", "e", " ", "b", "t", "c", ",", " ", "e", "t", "h", " ",
                   "h", "t", "t", "p", ":", "/", "/", "x">>,
     tags |-> Some(<<<<"S", "O", "L">>, <<"a", "b">>>>)],
    [content |-> <<"s", "o", "l", " ", "s", "o", "l", " ", "s", "o", "l", " ", "g", "m">>,
     tags |-> None],
    [content |-> <<"g", "m", " ", "b", "t", "c">>,
     tags |-> Some(<<<<"S", "O", "L">>, <<"a", "b">>>>)] }

\* engagement scores 0 and 3: weights 1 and 3
TermEngagements == { None, Engagement(Some(1), Some(1), None) }

TermPostAt(i) ==
  { MkPost(i, "farcaster", b.content, 0, e, b.tags) : b \in TermBodies, e \in TermEngagements }

InitTerms ==
  /\ pc = "terms_call"
  /\ \E n \in 0..MaxTermPosts : posts \in [1..n -> UNION {TermPostAt(i) : i \in 1..n}]
  /\ \A i \in DOMAIN posts : posts[i].id = i
  /\ topN \in {None} \cup {Some(n) : n \in 0..MaxTopN}
  /\ terms = <<>>
  /\ queryArg = None
  /\ IdleDedup /\ IdleSort /\ IdleMatch /\ IdleRest

NextTerms == ExtractTerms

SpecTerms == InitTerms /\ [][NextTerms]_vars

-----------------------------------------------------------------------------
(* Inputs of extractTermsBySource                                          *)

MaxGroupPosts == 3

\* sources of sourceOrder and one that is not among them
GroupSources == {"farcaster", "lens", "bluesky", "mastodon"}

\* "btc eth moon" and "sol btc eth"
GroupContents ==
  { <<"b", "t", "c", " ", "e", "t", "h", " ", "m", "o", "o", "n">>,
    <<"s", "o", "l", " ", "b", "t", "c", " ", "e", "t", "h">> }

\* ids are unique within a source: either the k-th post of a source has id k,
\* or the ids are unique across the sources too
IdWithinSource(shape, i) == Cardinality({j \in 1..i : shape[j][1] = shape[i][1]})
GroupPostId(shape, i, global) == IF global THEN i ELSE IdWithinSource(shape, i)

InitGroup ==
  /\ pc = "groups_call"
  /\ \E n \in 0..MaxGroupPosts :
       \E shape \in [1..n -> GroupSources \X GroupContents], global \in BOOLEAN :
         posts = [i \in 1..n |->
                    MkPost(GroupPostId(shape, i, global), shape[i][1], shape[i][2], 0, None, None)]
  /\ topN \in {None, Some(1)}
  /\ terms = <<>>
  /\ queryArg = None
  /\ IdleDedup /\ IdleSort /\ IdleMatch /\ IdleRest

NextGroup == ExtractTermsBySource

SpecGroup == InitGroup /\ [][NextGroup]_vars

-----------------------------------------------------------------------------
(* Inputs of computeEngagementScore                                        *)

MaxCounter == 3

Counters == {None} \cup {Some(n) : n \in 0..MaxCounter}

\* no engagement object, or one with each counter present or not
ScoreEngagements ==
  {None} \cup {Engagement(l, r, c) : l \in Counters, r \in Counters, c \in Counters}

InitScore ==
  /\ pc = "score_call"
  /\ \E g \in ScoreEngagements : posts = <<MkPost(1, "farcaster", <<>>, 0, g, None)>>
  /\ score = <<>>
  /\ queryArg = None
  /\ IdleDedup /\ IdleSort /\ IdleMatch /\ IdleTerms
  /\ IdleGroup /\ IdleMeta /\ IdleParse /\ IdleLater

NextScore == ComputeEngagementScore

SpecScore == InitScore /\ [][NextScore]_vars

-----------------------------------------------------------------------------
(* Inputs of mergeResults and buildMeta                                    *)

MaxResults == 2
MaxResultPosts == 2

\* the k-th post of a result has content "aaaaaa", "bbbbbb", ...: equal
\* across the results, unlike within one
MetaLetters == <<"a", "b", "c", "d">>
MetaPost(source, k) ==
  MkPost(k, source, [i \in 1..6 |-> MetaLetters[k]], k, None, None)

FetchResults ==
  { [posts |-> [k \in 1..n |-> MetaPost(s, k)], source |-> s, error |-> err] :
      n \in 0..MaxResultPosts, s \in Sources, err \in {None, Some("timeout")} }

\* SearchOptions and the sort order of the call
MetaCalls ==
  { [sort |-> "recent", query |-> None, timeframe |-> "24h"],
    [sort |-> "relevance", query |-> Some(<<"b", "b">>), timeframe |-> "week"] }

InitMeta ==
  /\ pc = "merge_call"
  /\ \E n \in 0..MaxResults : results \in [1..n -> FetchResults]
  /\ \E c \in MetaCalls :
       /\ options = Some([query |-> c.query, timeframe |-> c.timeframe])
       /\ sortArg = c.sort
       /\ queryArg = c.query
  /\ meta = <<>> /\ merged = <<>>
  /\ posts = <<>> /\ sorted = <<>>
  /\ IdleDedup /\ IdleMatch /\ IdleTerms
  /\ IdleGroup /\ IdleScore /\ IdleParse /\ IdleLater

NextMeta == MergeResults \/ BuildMeta

SpecMeta == InitMeta /\ [][NextMeta]_vars

-----------------------------------------------------------------------------
(* Inputs of parseSources                                                  *)

MaxEntries == 3

\* the entries "farcaster", " Lens", "<<"N", "O", "S", "T", "R", " ">> ", "bluesky", "twitter" and ""
SourceWords ==
  { <<"f", "a", "r", "c", "a", "s", "t", "e", "r">>,
    <<" ", "L", "e", "n", "s">>,
    <<"N", "O", "S", "T", "R", " ">>,
    <<"b", "l", "u", "e", "s", "k", "y">>,
    <<"t", "w", "i", "t", "t", "e", "r">>,
    <<>> }

\* entries.join(',')
RECURSIVE JoinComma(_)
JoinComma(entries) ==
  IF Len(entries) = 1 THEN entries[1]
  ELSE JoinComma(SubSeq(entries, 1, Len(entries) - 1)) \o <<",">> \o entries[Len(entries)]

InitParse ==
  /\ pc = "parse_call"
  /\ \E n \in 1..MaxEntries :
       \E entries \in [1..n -> SourceWords] : input = JoinComma(entries)
  /\ parsed = <<>>
  /\ posts = <<>>
  /\ queryArg = None
  /\ IdleDedup /\ IdleSort /\ IdleMatch /\ IdleTerms
  /\ IdleGroup /\ IdleScore /\ IdleMeta /\ IdleLater

NextParse == ParseSources

SpecParse == InitParse /\ [][NextParse]_vars

-----------------------------------------------------------------------------
(* Inputs of deduplicatePosts: contents longer than SliceLen               *)

MaxLongPosts == 3
LongTailLen == 60

\* the first SliceLen characters: all "a" or all "e"
LongHeads == { [i \in 1..SliceLen |-> c] : c \in {"a", "e"} }

\* what follows them: LongTailLen times "b", or as many "c"
LongTails == { [i \in 1..LongTailLen |-> c] : c \in {"b", "c"} }

\* lens posts have engagement score 2, the others 0
LongPostAt(i) ==
  { MkPost(i, s, h \o t, 0,
           IF s = "lens" THEN Engagement(None, Some(1), None) ELSE None, None) :
      s \in {"farcaster", "lens"}, h \in LongHeads, t \in LongTails }

InitLong ==
  /\ pc = "dedup_cache"
  /\ \E n \in 0..MaxLongPosts : posts \in [1..n -> UNION {LongPostAt(i) : i \in 1..n}]
  /\ \A i \in DOMAIN posts : posts[i].id = i
  /\ IdleDedup /\ IdleSort /\ IdleMatch /\ IdleTerms /\ IdleRest
  /\ queryArg = None

SpecLong == InitLong /\ [][NextDedup]_vars

-----------------------------------------------------------------------------
(* aggregate (lib.ts).  A promise is a record [source, state, value]; the  *)
(* fetchers are started together and their promises settle in any order.   *)

\* `options.sort || (options.query ? 'relevance' : 'engagement')`
SortOf(opts) ==
  IF opts.sort # None THEN opts.sort[1]
  ELSE IF Truthy(opts.query) THEN "relevance" ELSE "engagement"

\* the cases of the switch over options.sources
AggregateSources == {"farcaster", "lens", "nostr", "bluesky"}

\* `for (const source of options.sources) switch (source) { ... fetchers.push(...) }`
RECURSIVE PushFetchers(_, _)
PushFetchers(srcs, n) ==
  IF n = 0 THEN <<>>
  ELSE LET rest == PushFetchers(srcs, n - 1)
       IN  IF srcs[n] \in AggregateSources
           THEN Append(rest, [source |-> srcs[n], state |-> "pending", value |-> None])
           ELSE rest

\* a join that hands the values over in the order the promises settled
PromiseAll_SettleOrder(ps, order) == [k \in 1..Len(order) |-> ps[order[k]].value[1]]

\* Promise.all(fetchers): the values in the order of the promises
PromiseAll(ps, order) == [k \in 1..Len(ps) |-> ps[k].value[1]]

\* aggregate from `const allPosts` on
AggregateOf(rs, opts) ==
  LET allPosts == AllPosts(rs, Len(rs))
      deduped == sortPosts(allPosts, deduplicatePosts(allPosts), SortOf(opts), opts.query)
  IN  [posts |-> [k \in 1..Len(deduped) |-> allPosts[deduped[k]]],
       meta |-> [query |-> opts.query,
                 sources |-> [k \in 1..Len(rs) |->
                                [name |-> rs[k].source, count |-> Len(rs[k].posts),
                                 error |-> rs[k].error]],
                 timeframe |-> opts.timeframe,
                 totalPosts |-> Len(deduped)]]

MaxSources == 2

\* what the fetcher of a source resolves to: up to MaxResultPosts posts of
\* that source, or an error with no posts
FetchOutcomes(s) ==
  { [posts |-> [k \in 1..n |-> MetaPost(s, k)], source |-> s, error |-> None] :
      n \in 0..MaxResultPosts }
  \cup { [posts |-> <<>>, source |-> s, error |-> Some("timeout")] }

AggregateCalls ==
  { [sort |-> None, query |-> None],
    [sort |-> None, query |-> Some(<<"b", "b">>)],
    [sort |-> Some("recent"), query |-> None] }

AggregateStart ==
  /\ pc = "agg_call"
  /\ fetchers' = PushFetchers(options[1].sources, Len(options[1].sources))
  /\ pc' = "agg_await"
  /\ UNCHANGED <<posts, dedupVars, sortVars, queryArg, matchVars, termVars,
               groupVars, scoreVars, metaVars, parseVars,
               settled, fetchVars, relayVars, tokenVars>>

\* one of the pending fetches settles
FetchSettles ==
  /\ pc = "agg_await"
  /\ \E k \in DOMAIN fetchers :
       /\ fetchers[k].state = "pending"
       /\ \E r \in FetchOutcomes(fetchers[k].source) :
            fetchers' = [fetchers EXCEPT ![k].state = "fulfilled", ![k].value = Some(r)]
       /\ settled' = Append(settled, k)
  /\ UNCHANGED <<pc, posts, dedupVars, sortVars, queryArg, matchVars, termVars,
               groupVars, scoreVars, metaVars, parseVars,
               fetchVars, relayVars, tokenVars>>

\* the continuation of `await Promise.all(fetchers)`
AggregateJoin ==
  /\ pc = "agg_await"
  /\ \A k \in DOMAIN fetchers : fetchers[k].state = "fulfilled"
  /\ LET rs == PromiseAll(fetchers, settled)
         agg == AggregateOf(rs, options[1])
     IN  /\ results' = rs
         /\ merged' = agg.posts
         /\ meta' = Some(agg.meta)
  /\ pc' = "agg_done"
  /\ UNCHANGED <<posts, dedupVars, sortVars, queryArg, matchVars, termVars,
               groupVars, scoreVars, options, parseVars,
               aggVars, fetchVars, relayVars, tokenVars>>

InitAggregate ==
  /\ pc = "agg_call"
  /\ \E n \in 0..MaxSources : \E srcs \in [1..n -> AggregateSources] :
       \E c \in AggregateCalls :
         options = Some([query |-> c.query, timeframe |-> "24h", sort |-> c.sort,
                         sources |-> srcs])
  /\ results = <<>> /\ meta = <<>> /\ merged = <<>>
  /\ posts = <<>> /\ queryArg = None
  /\ IdleDedup /\ IdleSort /\ IdleMatch /\ IdleTerms
  /\ IdleGroup /\ IdleScore /\ IdleParse /\ IdleLater

NextAggregate == AggregateStart \/ FetchSettles \/ AggregateJoin

SpecAggregate == InitAggregate /\ [][NextAggregate]_vars


-----------------------------------------------------------------------------
(* Inputs of extractTerms: tags that hold a blank                          *)

MaxTagPosts == 2

\* "btc eth moon gm" without tags and with the tag "btc eth";
\* "sol moon hello" with the tags "BTC ETH" and "ab"
TagBodies ==
  { [content |-> <<"b", "t", "c", " ", "e", "t", "h", " ", "m", "o", "o", "n", " ", "g", "m">>,
     tags |-> None],
    [content |-> <<"b", "t", "c", " ", "e", "t", "h", " ", "m", "o", "o", "n", " ", "g", "m">>,
     tags |-> Some(<<<<"b", "t", "c", " ", "e", "t", "h">>>>)],
    [content |-> <<"s", "o", "l", " ", "m", "o", "o", "n", " ", "h", "e", "l", "l", "o">>,
     tags |-> Some(<<<<"B", "T", "C", " ", "E", "T", "H">>, <<"a", "b">>>>)] }

TagPostAt(i) ==
  { MkPost(i, "farcaster", b.content, 0, e, b.tags) : b \in TagBodies, e \in TermEngagements }

InitTagTerms ==
  /\ pc = "terms_call"
  /\ \E n \in 0..MaxTagPosts : posts \in [1..n -> UNION {TagPostAt(i) : i \in 1..n}]
  /\ \A i \in DOMAIN posts : posts[i].id = i
  /\ topN \in {None, Some(1)}
  /\ terms = <<>>
  /\ queryArg = None
  /\ IdleDedup /\ IdleSort /\ IdleMatch /\ IdleRest

SpecTagTerms == InitTagTerms /\ [][NextTerms]_vars


-----------------------------------------------------------------------------
(* tokenize called on its own (terms.ts)                                   *)

Tokenize ==
  /\ pc = "tok_call"
  /\ tokenized' = Some(tokenize(tokText))
  /\ pc' = "tok_done"
  /\ UNCHANGED <<posts, dedupVars, sortVars, queryArg, matchVars, termVars,
               groupVars, scoreVars, metaVars, parseVars,
               aggVars, fetchVars, relayVars, tokText>>

MaxWords == 3

\* the, and (stop words); btc, moon; ab (short); eth's; sol,
TokenPieces ==
  { <<"t", "h", "e">>, <<"a", "n", "d">>, <<"b", "t", "c">>, <<"m", "o", "o", "n">>,
    <<"a", "b">>, <<"e", "t", "h", "'", "s">>, <<"s", "o", "l", ",">> }

\* the pieces separated by one blank
RECURSIVE JoinBlank(_)
JoinBlank(ws) ==
  IF ws = <<>> THEN <<>>
  ELSE IF Len(ws) = 1 THEN ws[1]
       ELSE ws[1] \o <<" ">> \o JoinBlank(Tail(ws))

InitTokenize ==
  /\ pc = "tok_call"
  /\ \E n \in 0..MaxWords : \E ws \in [1..n -> TokenPieces] : tokText = JoinBlank(ws)
  /\ tokenized = <<>>
  /\ posts = <<>> /\ queryArg = None
  /\ IdleDedup /\ IdleSort /\ IdleMatch /\ IdleTerms
  /\ IdleGroup /\ IdleScore /\ IdleMeta /\ IdleParse
  /\ IdleAgg /\ IdleFetch /\ IdleRelay

NextTokenize == Tokenize

SpecTokenize == InitTokenize /\ [][NextTokenize]_vars


-----------------------------------------------------------------------------
(* The fetchers (fetchers/farcaster.ts, lens.ts, nostr.ts, bluesky.ts).    *)
(* An item a server delivers is "post", "blank" (blank content), "stale"   *)
(* (older than the cutoff) or "nomatch" (does not match the query).  An    *)
(* answer of a server is [status, items] with status "ok", "http" (a       *)
(* non-OK status), "network" (fetch throws) or "graphql" (an errors list). *)

DefaultLimit == 25
DefaultLensLimit == 50
DefaultRelayLimit == 50

\* `options.limit || d`
LimitOr(opts, d) == IF opts.limit # None /\ opts.limit[1] # 0 THEN opts.limit[1] ELSE d

\* the outcome of an awaited call: a returned value or a thrown error
Returned(v) == [threw |-> FALSE, value |-> v]
Thrown(msg) == [threw |-> TRUE, value |-> msg]

\* `await fetch(...)`, `if (!response.ok) throw`, `if (result.errors?.length) throw`,
\* then the items of the body
ItemsOf(answer) ==
  IF answer.status = "ok" THEN Returned(answer.items) ELSE Thrown(answer.status)

\* the client-side filters: cutoff, query, blank content
DropStale(items) == SelectSeq(items, LAMBDA x : x # "stale")
DropBlank(items) == SelectSeq(items, LAMBDA x : x # "blank")
DropNoMatch(opts, items) ==
  IF opts.query THEN SelectSeq(items, LAMBDA x : x # "nomatch") ELSE items

\* a settled promise
Fulfilled(v) == [state |-> "fulfilled", value |-> v]
Rejected(msg) == [state |-> "rejected", value |-> msg]

\* a fetcher that lets the error escape
Settle_Rethrow(source, outcome) ==
  IF outcome.threw THEN Rejected(outcome.value)
  ELSE Fulfilled([posts |-> outcome.value, source |-> source, error |-> None])

\* `try { ...; return { posts, source } } catch (error) { return { posts: [], source, error } }`
Settle(source, outcome) ==
  IF outcome.threw
  THEN Fulfilled([posts |-> <<>>, source |-> source, error |-> Some(outcome.value)])
  ELSE Fulfilled([posts |-> outcome.value, source |-> source, error |-> None])

\* the early return for a missing credential
MissingCredential(source) ==
  Fulfilled([posts |-> <<>>, source |-> source, error |-> Some("credential")])

\* fetchFarcaster; `got` is the outcome of fetchNeynarSearch / fetchNeynarTrending
fetchFarcaster(opts, got) ==
  LET limit == LimitOr(opts, DefaultLimit)
  IN  Settle("farcaster",
             IF got.threw THEN got
             ELSE Returned(Slice(DropBlank(DropNoMatch(opts, DropStale(got.value))), limit)))

\* fetchLens; `got` is the outcome of fetchLensPosts(options.limit || 50, options.query)
fetchLens(opts, got) ==
  Settle("lens",
         IF got.threw THEN got
         ELSE Returned(DropNoMatch(opts, DropBlank(DropStale(got.value)))))

\* fetchBluesky; `got` is the outcome of createSession followed by
\* searchBluesky, or of fetchWhatsHot
fetchBluesky(opts, got) ==
  LET limit == LimitOr(opts, DefaultLimit)
  IN  Settle("bluesky",
             IF got.threw THEN got
             ELSE Returned(Slice(DropBlank(DropNoMatch(opts, DropStale(got.value))), limit)))

\* queryRelays: the events of the relays, cut to options.limit || 50
queryRelays(opts, relayItems) == Slice(relayItems, LimitOr(opts, DefaultRelayLimit))

\* fetchTrendingFromNostrBand: `notes.slice(0, limit)`
fetchTrendingFromNostrBand(opts, answer) ==
  LET got == ItemsOf(answer)
  IN  IF got.threw THEN got ELSE Returned(Slice(got.value, LimitOr(opts, DefaultLimit)))

\* fetchTrendingFromNostrWine: the events fetched for the ids the server lists
fetchTrendingFromNostrWine(opts, answer) == ItemsOf(answer)

\* searchNostrBand: `(data.notes || []).map(n => n.event)`
searchNostrBand(opts, answer) == ItemsOf(answer)

\* how many of the servers fetchNostr consults, given their answers in order
NostrConsults(opts, answers) ==
  IF opts.query
  THEN IF answers[1].status = "ok" /\ answers[1].items # <<>> THEN 1 ELSE 2
  ELSE IF answers[1].status = "ok" THEN 1
       ELSE IF answers[2].status = "ok" THEN 2 ELSE 3

\* searchWithFallback / fetchTrendingWithFallback: the last answer is the relays'
NostrEvents(opts, answers) ==
  IF opts.query
  THEN IF NostrConsults(opts, answers) = 1 THEN searchNostrBand(opts, answers[1]).value
       ELSE queryRelays(opts, answers[2].items)
  ELSE CASE NostrConsults(opts, answers) = 1 ->
              fetchTrendingFromNostrBand(opts, answers[1]).value
         [] NostrConsults(opts, answers) = 2 ->
              fetchTrendingFromNostrWine(opts, answers[2]).value
         [] OTHER -> queryRelays(opts, answers[3].items)

\* fetchNostr
fetchNostr(opts, answers) ==
  Settle("nostr", Returned(DropNoMatch(opts, DropBlank(NostrEvents(opts, answers)))))

MaxItems == 3
MaxLimit == 2

ItemKinds == {"post", "blank", "stale", "nomatch"}
ItemLists == UNION { [1..n -> ItemKinds] : n \in 0..MaxItems }
OkAnswers == { [status |-> "ok", items |-> s] : s \in ItemLists }
FailedAnswers == { [status |-> f, items |-> <<>>] : f \in {"http", "network"} }
Answers == OkAnswers \cup FailedAnswers

\* the call is over: the promise is settled and the answers are on record
FetchDone(promise, answers) ==
  /\ fetchResult' = Some(promise)
  /\ fetchCall' = Some([fetchCall[1] EXCEPT !.answers = answers])
  /\ pc' = "fetch_done"
  /\ UNCHANGED <<posts, dedupVars, sortVars, queryArg, matchVars, termVars,
               groupVars, scoreVars, metaVars, parseVars,
               aggVars, relayVars, tokenVars>>

FetchFarcaster ==
  /\ pc = "fetch_call" /\ fetchCall[1].fetcher = "farcaster"
  /\ IF ~fetchCall[1].credentials
     THEN FetchDone(MissingCredential("farcaster"), <<>>)
     ELSE \E a \in Answers : FetchDone(fetchFarcaster(fetchCall[1], ItemsOf(a)), <<a>>)

\* limitToLensEnum: the page size asked of the server, TEN or FIFTY
limitToLensEnum(limit) == IF limit <= 10 THEN 10 ELSE 50

FetchLens ==
  /\ pc = "fetch_call" /\ fetchCall[1].fetcher = "lens"
  /\ \E a \in Answers \cup {[status |-> "graphql", items |-> <<>>]} :
       /\ Len(a.items) <= limitToLensEnum(LimitOr(fetchCall[1], DefaultLensLimit))
       /\ FetchDone(fetchLens(fetchCall[1], ItemsOf(a)), <<a>>)

FetchBluesky ==
  /\ pc = "fetch_call" /\ fetchCall[1].fetcher = "bluesky"
  /\ IF fetchCall[1].query
     THEN IF ~fetchCall[1].credentials
          THEN FetchDone(MissingCredential("bluesky"), <<>>)
          ELSE \/ \E s \in FailedAnswers :
                    FetchDone(fetchBluesky(fetchCall[1], ItemsOf(s)), <<s>>)
               \/ \E a \in Answers :
                    FetchDone(fetchBluesky(fetchCall[1], ItemsOf(a)),
                              <<[status |-> "ok", items |-> <<>>], a>>)
     ELSE \E a \in Answers : FetchDone(fetchBluesky(fetchCall[1], ItemsOf(a)), <<a>>)

\* the answers fetchNostr can meet: the first server alone, a fallback after
\* a failure (or, in a search, after no hit), at last the relays
NostrAnswerLists ==
  {<<a>> : a \in OkAnswers}
  \cup {<<f, r>> : f \in FailedAnswers \cup {[status |-> "ok", items |-> <<>>]},
                   r \in OkAnswers}
  \cup {<<f, g, r>> : f \in FailedAnswers, g \in FailedAnswers, r \in OkAnswers}

FetchNostr ==
  /\ pc = "fetch_call" /\ fetchCall[1].fetcher = "nostr"
  /\ \E answers \in NostrAnswerLists :
       /\ NostrConsults(fetchCall[1], answers) = Len(answers)
       /\ FetchDone(fetchNostr(fetchCall[1], answers), answers)

InitFetch ==
  /\ pc = "fetch_call"
  /\ \E f \in AggregateSources, q \in BOOLEAN, c \in BOOLEAN :
       \E l \in {None} \cup {Some(n) : n \in 1..MaxLimit} :
         fetchCall = Some([fetcher |-> f, limit |-> l, query |-> q, credentials |-> c,
                           answers |-> <<>>])
  /\ fetchResult = <<>>
  /\ posts = <<>> /\ queryArg = None
  /\ IdleDedup /\ IdleSort /\ IdleMatch /\ IdleTerms
  /\ IdleGroup /\ IdleScore /\ IdleMeta /\ IdleParse
  /\ IdleAgg /\ IdleRelay /\ IdleTokens

NextFetch == FetchFarcaster \/ FetchLens \/ FetchBluesky \/ FetchNostr

SpecFetch == InitFetch /\ [][NextFetch]_vars


-----------------------------------------------------------------------------
(* The relay helpers queryRelay, queryRelayByIds and fetchProfiles         *)
(* (fetchers/nostr.ts).  `relay` is the state of one call: the socket      *)
(* (none, connecting, open, closing, closed), the timer (none, armed,      *)
(* cleared, fired), the promise with the number of events it was resolved  *)
(* with, the events array and whether resolve was called again.            *)

RelayHelpers == {"queryRelay", "queryRelayByIds", "fetchProfiles"}

\* resolve(events): settles a pending promise, has no effect on a settled one
Resolve(r) ==
  IF r.promise = "pending"
  THEN [r EXCEPT !.promise = "resolved", !.value = Some(r.events)]
  ELSE [r EXCEPT !.again = TRUE]

\* clearTimeout(timeout)
ClearTimeout(r) == [r EXCEPT !.timer = IF @ = "armed" THEN "cleared" ELSE @]

\* ws.close() of the polyfill throws when the connection was never established
CloseThrows(r) == r.ws = "connecting" /\ r.closeThrows

\* the socket after a close() that returned
AfterClose(ws) == IF ws \in {"connecting", "open"} THEN "closing" ELSE ws

\* a safeClose that lets the exception of close() escape
safeClose_Unprotected(r) ==
  IF r.ws = "none" THEN [ws |-> r.ws, threw |-> FALSE]
  ELSE IF CloseThrows(r) THEN [ws |-> r.ws, threw |-> TRUE]
       ELSE [ws |-> AfterClose(r.ws), threw |-> FALSE]

\* safeClose: `if (!ws) return; try { ws.close() } catch {}`
safeClose(r) ==
  IF r.ws = "none" THEN [ws |-> r.ws, threw |-> FALSE]
  ELSE IF CloseThrows(r) THEN [ws |-> r.ws, threw |-> FALSE]
       ELSE [ws |-> AfterClose(r.ws), threw |-> FALSE]

\* `safeClose(ws); resolve(events)`: resolve is skipped when safeClose throws
CloseAndResolve(r) ==
  LET c == safeClose(r)
  IN  IF c.threw THEN [r EXCEPT !.ws = c.ws]
      ELSE Resolve([r EXCEPT !.ws = c.ws])

\* the executor: setTimeout, then `try { ws = new WebSocket(relay); ... }
\* catch { clearTimeout(timeout); resolve(events) }`
Executor(r, constructorThrows) ==
  IF constructorThrows
  THEN Resolve(ClearTimeout([r EXCEPT !.timer = "armed"]))
  ELSE [r EXCEPT !.timer = "armed", !.ws = "connecting"]

MaxEvents == 2

RelayRest ==
  UNCHANGED <<posts, dedupVars, sortVars, queryArg, matchVars, termVars,
              groupVars, scoreVars, metaVars, parseVars,
              aggVars, fetchVars, tokenVars>>

\* the call: fetchProfiles returns at once without public keys
RelayStart ==
  /\ pc = "relay_call"
  /\ \/ /\ relay.helper = "fetchProfiles" /\ relay.noKeys
        /\ relay' = Resolve(relay)
     \/ /\ ~(relay.helper = "fetchProfiles" /\ relay.noKeys)
        /\ \E constructorThrows \in BOOLEAN : relay' = Executor(relay, constructorThrows)
  /\ pc' = "relay_running"
  /\ RelayRest

\* ws.onopen: sends the REQ
SocketOpens ==
  /\ pc = "relay_running" /\ relay.ws = "connecting"
  /\ relay' = [relay EXCEPT !.ws = "open"]
  /\ UNCHANGED pc /\ RelayRest

\* ws.onmessage
MessageArrives ==
  /\ pc = "relay_running" /\ relay.ws \in {"open", "closing"}
  /\ \E kind \in {"EVENT", "EVENT_bad_content", "EVENT_no_data", "EOSE", "NOTICE", "invalid_json"} :
       CASE kind = "EVENT" ->
              /\ relay.events < MaxEvents
              /\ relay' = [relay EXCEPT !.events = @ + 1]
         [] kind = "EVENT_bad_content" ->
              \* fetchProfiles: JSON.parse(event.content) throws, the entry is skipped
              /\ relay.events < MaxEvents
              /\ relay' = IF relay.helper = "fetchProfiles" THEN relay
                          ELSE [relay EXCEPT !.events = @ + 1]
         [] kind = "EOSE" -> relay' = CloseAndResolve(ClearTimeout(relay))
         [] OTHER -> relay' = relay
  /\ UNCHANGED pc /\ RelayRest

\* ws.onerror
SocketError ==
  /\ pc = "relay_running" /\ relay.ws \in {"connecting", "open", "closing"}
  /\ relay' = Resolve(ClearTimeout(relay))
  /\ UNCHANGED pc /\ RelayRest

\* ws.onclose
SocketCloses ==
  /\ pc = "relay_running" /\ relay.ws \in {"connecting", "open", "closing"}
  /\ relay' = Resolve(ClearTimeout([relay EXCEPT !.ws = "closed"]))
  /\ UNCHANGED pc /\ RelayRest

\* the callback of setTimeout
TimerFires ==
  /\ pc = "relay_running" /\ relay.timer = "armed"
  /\ relay' = CloseAndResolve([relay EXCEPT !.timer = "fired"])
  /\ UNCHANGED pc /\ RelayRest

InitRelay ==
  /\ pc = "relay_call"
  /\ \E h \in RelayHelpers, t \in BOOLEAN, k \in BOOLEAN :
       /\ (k => h = "fetchProfiles")
       /\ relay = [helper |-> h, closeThrows |-> t, noKeys |-> k,
                   ws |-> "none", timer |-> "none", promise |-> "pending",
                   value |-> None, events |-> 0, again |-> FALSE]
  /\ posts = <<>> /\ queryArg = None
  /\ IdleDedup /\ IdleSort /\ IdleMatch /\ IdleTerms
  /\ IdleGroup /\ IdleScore /\ IdleMeta /\ IdleParse
  /\ IdleAgg /\ IdleFetch /\ IdleTokens

NextRelay ==
  RelayStart \/ SocketOpens \/ MessageArrives \/ SocketError \/ SocketCloses \/ TimerFires

SpecRelay == InitRelay /\ [][NextRelay]_vars

\* the call is made and the timer, while armed, eventually fires
SpecRelayFair == SpecRelay /\ WF_vars(RelayStart) /\ WF_vars(TimerFires)


-----------------------------------------------------------------------------
(* Properties of deduplicatePosts                                          *)

\* posts i and j are from different sources and their normalized contents are similar
CrossSimilar(i, j) ==
  /\ posts[i].source # posts[j].source
  /\ AboveThreshold(similarityRatio(normalizeContent(posts[i].content),
                                    normalizeContent(posts[j].content)))

\* the same on the first SliceLen characters, which is what the code compares
CrossSimilarCut(i, j) ==
  /\ posts[i].source # posts[j].source
  /\ AboveThreshold(similarityRatio(Slice(normalizeContent(posts[i].content), SliceLen),
                                    Slice(normalizeContent(posts[j].content), SliceLen)))

Score(i) == computeEngagementScore(posts[i])

\* of i and j exactly one is in res, and it is one whose score is >= the other's
ExactlyOneBest(res, i, j) ==
  \/ i \in Range(res) /\ j \notin Range(res) /\ Score(i) >= Score(j)
  \/ j \in Range(res) /\ i \notin Range(res) /\ Score(j) >= Score(i)

\* C1 as stated: in the output of deduplicatePosts, of every two posts from
\* different sources with similarity > 0.8 exactly one is present, and it is
\* one whose engagement score is >= the other's.
C1_AllPairs ==
  pc = "dedup_done" =>
    \A i, j \in DOMAIN posts : (i # j /\ CrossSimilar(i, j)) => ExactlyOneBest(result, i, j)

\* the result slots that hold a post of another source similar to candidate p
SlotsMatching(p) == {k \in DOMAIN result : CrossSimilarCut(p, result[k])}

FirstSlot(S) == CHOOSE k \in S : \A l \in S : k <= l

\* C1 amended: at every step of the loop, when the candidate is similar
\* (> 0.8 on the first 200 normalized characters) to a result entry of another
\* source, then after the step exactly one of the candidate and the first such
\* entry is in the result, and it is one whose engagement score is >= the
\* other's; so a list of two such posts yields exactly one, the better one.
C1_StepKeepsBest ==
  [][ (pc = "dedup_loop" /\ SlotsMatching(idx + 1) # {}) =>
        /\ ExactlyOneBest(result', idx + 1, result[FirstSlot(SlotsMatching(idx + 1))])
        /\ (pc' = "dedup_done" /\ Len(posts) = 2) => ExactlyOneBest(result', 1, 2) ]_vars

\* C1 witness: a finished run in which a later post replaced the first one
C1_Witness ==
  /\ pc = "dedup_done" /\ Len(posts) >= 2 /\ Len(result) < Len(posts)
  /\ result[1] # 1 /\ CrossSimilarCut(1, result[1])

C3_OrderPreserving ==
  [][ pc = "dedup_loop" =>
        LET p == idx + 1
            S == SlotsMatching(p)
        IN  IF S = {} THEN result' = Append(result, p)
            ELSE /\ Len(result') = Len(result)
                 /\ \A k \in DOMAIN result : k # FirstSlot(S) => result'[k] = result[k]
                 /\ result'[FirstSlot(S)] \in {p, result[FirstSlot(S)]}
                 /\ Score(p) > Score(result[FirstSlot(S)]) => result'[FirstSlot(S)] = p
                 /\ p \notin Range(result) ]_vars

\* C3 witness: a replacement happened in a slot that is followed by another one
C3_Witness ==
  pc = "dedup_done" /\ Len(result) >= 2 /\ result[1] > result[2]

-----------------------------------------------------------------------------
(* Properties of sortPosts                                                 *)

Timestamp(i) == posts[i].timestamp

\* does post i match the query of the call
IsMatch(i) == matchesQuery(posts[i].content, TagsOrEmpty(posts[i]), queryArg[1])

\* C4: after sortPosts(posts, 'relevance', q) with a non-empty q, every post
\* that matches q stands before every post that does not.
C4_MatchesFirst ==
  (pc = "sort_done" /\ sortArg = "relevance" /\ Truthy(queryArg)) =>
    \A k, l \in DOMAIN sorted : (k < l /\ IsMatch(sorted[l])) => IsMatch(sorted[k])

\* C4 witness: a matching post was moved in front of a non-matching post that
\* has the higher engagement score and came first in the input
C4_Witness ==
  /\ pc = "sort_done" /\ sortArg = "relevance" /\ Truthy(queryArg) /\ Len(sorted) >= 2
  /\ IsMatch(sorted[1]) /\ ~IsMatch(sorted[2])
  /\ Score(sorted[1]) < Score(sorted[2]) /\ sorted[2] < sorted[1]

\* C5: after sortPosts(posts, 'engagement') the engagement scores do not
\* increase along the list, and of two neighbours with equal scores the first
\* is not the older one.
C5_EngagementOrder ==
  (pc = "sort_done" /\ sortArg = "engagement") =>
    \A k \in 1..(Len(sorted) - 1) :
      /\ Score(sorted[k]) >= Score(sorted[k + 1])
      /\ Score(sorted[k]) = Score(sorted[k + 1])
           => Timestamp(sorted[k]) >= Timestamp(sorted[k + 1])

\* C5 witness: a score tie decided by the timestamps, against the input order
C5_Witness ==
  /\ pc = "sort_done" /\ sortArg = "engagement" /\ Len(sorted) >= 3
  /\ \E k \in 1..(Len(sorted) - 1) :
       /\ Score(sorted[k]) = Score(sorted[k + 1])
       /\ Timestamp(sorted[k]) > Timestamp(sorted[k + 1])
       /\ sorted[k] > sorted[k + 1]
  /\ Score(sorted[1]) > Score(sorted[Len(sorted)])

\* C6: after sortPosts(posts, 'recent') the timestamps do not increase along
\* the list.
C6_RecentOrder ==
  (pc = "sort_done" /\ sortArg = "recent") =>
    \A k \in 1..(Len(sorted) - 1) : Timestamp(sorted[k]) >= Timestamp(sorted[k + 1])

\* C6 witness: a list that was not in order before the call
C6_Witness ==
  /\ pc = "sort_done" /\ sortArg = "recent" /\ Len(sorted) >= 2
  /\ Timestamp(1) < Timestamp(2) /\ sorted[1] # 1

\* C7: with order 'relevance' and no query (undefined or the empty string) the
\* list ends in the order that order 'engagement' gives the same input.
C7_RelevanceFallsBack ==
  (pc = "sort_done" /\ sortArg = "relevance" /\ ~Truthy(queryArg)) =>
    sorted = sortPosts(posts, [i \in 1..Len(posts) |-> i], "engagement", None)

\* C7 witness: the call without a query reordered the list by engagement
C7_Witness ==
  /\ pc = "sort_done" /\ sortArg = "relevance" /\ queryArg = Some(<<>>)
  /\ Len(sorted) >= 2 /\ Score(sorted[1]) > Score(sorted[2]) /\ sorted[1] > sorted[2]

\* the comparator of the call ranks posts i and j equal
EqualRank(i, j) ==
  /\ Timestamp(i) = Timestamp(j)
  /\ sortArg # "recent" => Score(i) = Score(j)
  /\ (sortArg = "relevance" /\ Truthy(queryArg)) => (IsMatch(i) <=> IsMatch(j))

\* C8: for each order sortPosts only permutes the list, and two posts that the
\* order's comparator ranks equal keep their input order.
C8_StablePermutation ==
  pc = "sort_done" =>
    /\ Len(sorted) = Len(posts)
    /\ \A i \in DOMAIN posts : \E k \in DOMAIN sorted : sorted[k] = i
    /\ \A k, l \in DOMAIN sorted :
         (k < l /\ EqualRank(sorted[k], sorted[l])) => sorted[k] < sorted[l]

\* C8 witness: a call that moved posts and left two equally ranked posts
C8_Witness ==
  /\ pc = "sort_done" /\ Len(sorted) >= 3 /\ sorted[1] # 1
  /\ \E k, l \in DOMAIN sorted : k < l /\ EqualRank(sorted[k], sorted[l])

-----------------------------------------------------------------------------
(* Properties of matchesQuery                                              *)

\* t occurs in s as a run of consecutive characters
IsSubstring(t, s) == \E i \in 0..(Len(s) - Len(t)) : SubSeq(s, i + 1, i + Len(t)) = t

\* the non-empty whitespace-separated terms of the lower-cased query q
TermsOf(q) ==
  LET lq == ToLowerCase(q)
  IN  { SubSeq(lq, i, j) : <<i, j>> \in
          { r \in (1..Len(lq)) \X (1..Len(lq)) :
              /\ r[1] <= r[2]
              /\ \A k \in r[1]..r[2] : ~IsSpace(lq[k])
              /\ (r[1] = 1 \/ IsSpace(lq[r[1] - 1]))
              /\ (r[2] = Len(lq) \/ IsSpace(lq[r[2] + 1])) } }

\* term t is found in the content or in one single tag of the call
TermFound(t) ==
  \/ IsSubstring(t, ToLowerCase(mqContent))
  \/ \E k \in DOMAIN mqTags : IsSubstring(t, ToLowerCase(mqTags[k]))

\* C9: matchesQuery returns true exactly when every non-empty
\* whitespace-separated term of the lower-cased query is a substring of the
\* lower-cased content or of one single lower-cased tag; a query without terms
\* matches everything.
C9_AllTermsMatch ==
  pc = "match_done" =>
    mqResult = Some(\A t \in TermsOf(queryArg[1]) : TermFound(t))

\* C9 witness: a two-term query answered true with one term found only in the
\* content and the other only in a tag
C9_Witness ==
  /\ pc = "match_done" /\ mqResult = Some(TRUE)
  /\ \E t, u \in TermsOf(queryArg[1]) :
       /\ t # u
       /\ IsSubstring(t, ToLowerCase(mqContent))
       /\ ~IsSubstring(u, ToLowerCase(mqContent))
       /\ \A k \in DOMAIN mqTags : ~IsSubstring(t, ToLowerCase(mqTags[k]))

-----------------------------------------------------------------------------
(* Properties of extractTerms                                              *)

\* the tokens post i contributes: none when its normalized content is too short
TokensOfPost(i) ==
  LET normalized == normalizeContent(posts[i].content)
      tk == tokenize(normalized)
  IN  IF Len(normalized) < MinContentLen THEN {}
      ELSE Range(tk.unigrams) \cup Range(tk.bigrams) \cup Range(TagTokens(posts[i]))

\* the posts that contribute token t
Contributors(t) == {i \in DOMAIN posts : t \in TokensOfPost(i)}

\* C10: every term extractTerms returns has postCount >= 2 and is contributed
\* by at least 2 distinct posts; a token of one post only is never returned.
C10_AtLeastTwoPosts ==
  pc = "terms_done" =>
    \A k \in DOMAIN terms :
      terms[k].postCount >= 2 /\ Cardinality(Contributors(terms[k].token)) >= 2

\* C10 witness: a term was returned while a token that one high-engagement
\* post repeats, and no other post has, was left out
C10_Witness ==
  /\ pc = "terms_done" /\ Len(terms) >= 1 /\ Len(terms) < DefaultTopN /\ topN = None
  /\ \E i \in DOMAIN posts :
       /\ computeEngagementScore(posts[i]) > 0
       /\ Len(normalizeContent(posts[i].content)) >= MinContentLen
       /\ \E t \in Range(tokenize(normalizeContent(posts[i].content)).unigrams) :
            /\ Contributors(t) = {i}
            /\ Cardinality({k \in DOMAIN tokenize(normalizeContent(posts[i].content)).unigrams :
                 tokenize(normalizeContent(posts[i].content)).unigrams[k] = t}) >= 2

\* the two words of a bigram token
Parts(token) == Range(SplitBlankFrom(token, 1, <<>>))

Accumulated == AccumulatePosts(posts, Len(posts))

\* the weight extractTerms accumulated for token t
WeightOf(t) == (CHOOSE e \in Range(Accumulated) : e.token = t).weight

Requested == IF topN = None THEN DefaultTopN ELSE topN[1]

\* C12 as stated: extractTerms(posts, topN) returns at most topN terms for
\* every topN >= 0, and at most 3 when topN is omitted.
C12_AtMostTopN == pc = "terms_done" => Len(terms) <= Requested

RECURSIVE SumPostWeights(_)
SumPostWeights(S) ==
  IF S = {} THEN 0
  ELSE LET i == CHOOSE i \in S : TRUE
       IN  PostWeight(posts[i]) + SumPostWeights(S \ {i})

\* C14 as stated: the weight of a token is the sum of the weights of the posts
\* that contain it, each such post counted once; the score of a returned term
\* is that sum, rounded.
C14_WeightOncePerPost ==
  pc = "terms_done" =>
    \A k \in DOMAIN terms :
      terms[k].score = RoundScore(SumPostWeights(Contributors(terms[k].token)))

\* C15: the returned terms are in non-increasing order of accumulated weight,
\* at equal weight a bigram is never listed after a unigram, and the first
\* returned term is an eligible token of maximal accumulated weight.
C15_RankedByWeight ==
  pc = "terms_done" =>
    LET acc == Accumulated
        weights == [k \in DOMAIN terms |->
                      (CHOOSE e \in Range(acc) : e.token = terms[k].token).weight]
    IN  /\ \A j, k \in DOMAIN terms :
             j < k =>
               /\ weights[j] >= weights[k]
               /\ weights[j] = weights[k] =>
                    ~(IsBigram(terms[k].token) /\ ~IsBigram(terms[j].token))
        /\ terms # <<>> =>
             /\ Cardinality(Contributors(terms[1].token)) >= MinPostIds
             /\ \A e \in Range(acc) :
                  Cardinality(e.postIds) >= MinPostIds => e.weight <= weights[1]

\* C15 witness: a bigram listed before a unigram of exactly the same weight,
\* in a result whose first term outweighs an eligible token
C15_Witness ==
  /\ pc = "terms_done"
  /\ \E j, k \in DOMAIN terms :
       /\ j < k
       /\ WeightOf(terms[j].token) = WeightOf(terms[k].token)
       /\ IsBigram(terms[j].token) /\ ~IsBigram(terms[k].token)
  /\ \E e \in Range(Accumulated) :
       Eligible(e) /\ e.weight < WeightOf(terms[1].token)

-----------------------------------------------------------------------------
(* Properties of extractTermsBySource                                      *)

\* C13 as stated: with ids unique within each source, the postCount of every
\* term of the overall result is the number of distinct posts (of normalized
\* length >= 10) that contribute the token.
C13_PostCountIsContributors ==
  pc = "groups_done" =>
    \A k \in DOMAIN termsResult[1].overall :
      termsResult[1].overall[k].postCount =
        Cardinality(Contributors(termsResult[1].overall[k].token))

\* the sources of the posts, and the position of the first post of a source
SourcesPresent == {posts[i].source : i \in DOMAIN posts}
FirstPostOf(s) == CHOOSE i \in DOMAIN posts : posts[i].source = s /\ \A j \in 1..(i - 1) : posts[j].source # s
Known(s) == s \in Range(sourceOrder)

\* C16 as stated: the groups are ordered farcaster, lens, nostr, bluesky, and
\* every group of another source comes after all of these, in the order in
\* which the sources were first encountered.
C16_CanonicalThenEncounter ==
  pc = "groups_done" =>
    \A j, k \in DOMAIN termsResult[1].bySource :
      j < k =>
        LET a == termsResult[1].bySource[j].source
            b == termsResult[1].bySource[k].source
        IN  /\ Known(a) /\ Known(b) => IndexOf(sourceOrder, a) < IndexOf(sourceOrder, b)
            /\ ~Known(a) => ~Known(b) /\ FirstPostOf(a) < FirstPostOf(b)

RECURSIVE SumPostCounts(_, _)
SumPostCounts(groups, n) ==
  IF n = 0 THEN 0 ELSE groups[n].postCount + SumPostCounts(groups, n - 1)

\* C17: one group per source present; the terms of a group are extractTerms
\* of that source's posts in input order, its postCount is their number, the
\* postCounts add up to the input length, and overall is extractTerms of the
\* full list.
C17_GroupsPerSource ==
  pc = "groups_done" =>
    LET groups == termsResult[1].bySource
    IN  /\ {groups[k].source : k \in DOMAIN groups} = SourcesPresent
        /\ Len(groups) = Cardinality(SourcesPresent)
        /\ \A k \in DOMAIN groups :
             LET own == SelectSeq(posts, LAMBDA p : p.source = groups[k].source)
             IN  /\ groups[k].terms = extractTerms(own, topN)
                 /\ groups[k].postCount = Cardinality({i \in DOMAIN posts : posts[i].source = groups[k].source})
        /\ SumPostCounts(groups, Len(groups)) = Len(posts)
        /\ termsResult[1].overall = extractTerms(posts, topN)

\* C17 witness: one source has a single post and no term, another has terms
\* of its own, and a token the two sources share is a term of overall and of
\* no group
C17_Witness ==
  /\ pc = "groups_done"
  /\ LET groups == termsResult[1].bySource
         overall == termsResult[1].overall
     IN  \E j, m \in DOMAIN groups :
           /\ groups[j].postCount = 1 /\ groups[j].terms = <<>>
           /\ groups[m].terms # <<>>
           /\ \E k \in DOMAIN overall, i \in DOMAIN posts :
                /\ posts[i].source = groups[j].source
                /\ overall[k].token \in TokensOfPost(i)
                /\ \A g \in DOMAIN groups :
                     \A t \in DOMAIN groups[g].terms :
                       groups[g].terms[t].token # overall[k].token

-----------------------------------------------------------------------------
(* Properties of computeEngagementScore                                    *)

\* a counter of the post, 0 when the counter or the engagement object is missing
CounterOf(post, name) ==
  IF post.engagement = None THEN 0
  ELSE IF post.engagement[1][name] = None THEN 0
       ELSE post.engagement[1][name][1]

\* the post with every missing counter written as 0
ZeroFilled(post) ==
  [post EXCEPT !.engagement =
     Engagement(Some(CounterOf(post, "likes")), Some(CounterOf(post, "reposts")),
                Some(CounterOf(post, "replies")))]

\* C18: the score is likes + 2 * reposts + replies with every missing counter
\* (or the whole engagement object missing) counted as 0; the score, the
\* 'engagement' comparator and the term weight do not tell the post from the
\* same post with the missing counters written as 0.
C18_ScoreFormula ==
  pc = "score_done" =>
    LET post == posts[1]
    IN  /\ score = Some(CounterOf(post, "likes") + 2 * CounterOf(post, "reposts")
                          + CounterOf(post, "replies"))
        /\ computeEngagementScore(ZeroFilled(post)) = score[1]
        /\ CmpEngagement(post, ZeroFilled(post)) = 0
        /\ CmpEngagement(ZeroFilled(post), post) = 0
        /\ PostWeight(ZeroFilled(post)) = PostWeight(post)

\* C18 witness: a post with reposts and replies but no likes counter has been
\* scored
C18_Witness ==
  /\ pc = "score_done"
  /\ posts[1].engagement # None
  /\ posts[1].engagement[1].likes = None
  /\ posts[1].engagement[1].reposts = Some(2)
  /\ posts[1].engagement[1].replies = Some(1)
  /\ score = Some(5)

-----------------------------------------------------------------------------
(* Properties of buildMeta and mergeResults                                *)

RECURSIVE SumCounts(_, _)
SumCounts(entries, n) ==
  IF n = 0 THEN 0 ELSE entries[n].count + SumCounts(entries, n - 1)

\* post p is in the merged list, or a post of another source with the same
\* content is there in its place
Represented(p) ==
  \E k \in DOMAIN merged :
    merged[k] = p \/ (merged[k].source # p.source /\ merged[k].content = p.content)

\* C19: meta.sources has one entry per FetchResult, in order, with the source
\* name, posts.length and the error unchanged; totalPosts is the sum of the
\* counts; the posts of a result that carries an error are counted and merged
\* like any other.
C19_MetaPerResult ==
  pc = "meta_done" =>
    LET m == meta[1]
    IN  /\ Len(m.sources) = Len(results)
        /\ \A k \in DOMAIN results :
             /\ m.sources[k].name = results[k].source
             /\ m.sources[k].count = Len(results[k].posts)
             /\ m.sources[k].error = results[k].error
             /\ \A i \in DOMAIN results[k].posts : Represented(results[k].posts[i])
        /\ m.totalPosts = SumCounts(m.sources, Len(m.sources))
        /\ m.query = options[1].query /\ m.timeframe = options[1].timeframe

\* C19 witness: a result with an error and posts next to one without error;
\* one post of the failed result is in the merged list, another is absent as
\* the duplicate of a post of the other result
C19_Witness ==
  /\ pc = "meta_done"
  /\ \E j, k \in DOMAIN results :
       /\ results[j].error # None /\ results[k].error = None
       /\ results[j].source # results[k].source
       /\ meta[1].sources[j].count = 2 /\ meta[1].sources[k].count = 1
       /\ meta[1].totalPosts = 3
       /\ \E a, b \in DOMAIN results[j].posts :
            /\ results[j].posts[a] \in Range(merged)
            /\ results[j].posts[b] \notin Range(merged)

-----------------------------------------------------------------------------
(* Properties of parseSources                                              *)

FourSources ==
  { <<"f", "a", "r", "c", "a", "s", "t", "e", "r">>,
    <<"l", "e", "n", "s">>,
    <<"n", "o", "s", "t", "r">>,
    <<"b", "l", "u", "e", "s", "k", "y">> }

IsOneOfFour(x) == x \in FourSources

\* C20 as stated: parseSources returns, in input order, exactly the entries
\* that after trimming and lower-casing are one of farcaster, lens, nostr and
\* bluesky.
C20_KeepsTheFourSources ==
  pc = "parse_done" => parsed = SelectSeq(SourceEntries(input), IsOneOfFour)

-----------------------------------------------------------------------------
(* Further properties of deduplicatePosts                                  *)

\* C23: a candidate that matches a result entry replaces it only when its
\* engagement score is strictly greater; at equal (or lower) score the
\* existing entry stays and the candidate is dropped.
C23_ReplaceOnlyIfGreater ==
  [][ (pc = "dedup_loop" /\ SlotsMatching(idx + 1) # {}) =>
        LET k == FirstSlot(SlotsMatching(idx + 1))
        IN  IF Score(idx + 1) > Score(result[k])
            THEN result' = [result EXCEPT ![k] = idx + 1]
            ELSE result' = result ]_vars

\* C23 witness: the post handled last matched an earlier entry of equal score
\* and was dropped
C23_Witness ==
  /\ pc \in {"dedup_loop", "dedup_done"} /\ idx >= 2
  /\ idx \notin Range(result)
  /\ \E k \in DOMAIN result :
       /\ result[k] < idx
       /\ CrossSimilarCut(idx, result[k])
       /\ Score(idx) = Score(result[k])
       /\ \A l \in 1..(k - 1) : ~CrossSimilarCut(idx, result[l])

\* C28 as stated: deduplicatePosts applied to its own output returns that
\* output unchanged.
C28_Idempotent ==
  pc = "dedup_done" =>
    deduplicatePosts([k \in 1..Len(result) |-> posts[result[k]]])
      = [k \in 1..Len(result) |-> k]

\* the list with the characters after the first SliceLen of post i replaced
WithTail(i, tail) ==
  [posts EXCEPT ![i].content = SubSeq(posts[i].content, 1, SliceLen) \o tail]

\* replacing what follows the first SliceLen characters of any one post
\* leaves the output unchanged
TailIrrelevant ==
  pc = "dedup_done" =>
    \A i \in DOMAIN posts :
      \A tail \in LongTails : deduplicatePosts(WithTail(i, tail)) = result

\* C24: only the first 200 characters of the normalized content count:
\* replacing what follows them in any one post leaves the output unchanged,
\* and two posts of different sources that agree on their first 200
\* characters are merged, never both in the output.
C24_OnlyFirst200 ==
  /\ TailIrrelevant
  /\ pc = "dedup_done" =>
       \A i, j \in DOMAIN posts :
         ( /\ posts[i].source # posts[j].source
           /\ SubSeq(normalizeContent(posts[i].content), 1, SliceLen)
                = SubSeq(normalizeContent(posts[j].content), 1, SliceLen) )
           => ~(i \in Range(result) /\ j \in Range(result))

-----------------------------------------------------------------------------
(* Properties of aggregate                                                 *)

\* the value the promise pushed for the k-th requested source settled to
ValueAt(k) == fetchers[k].value[1]

\* C27: nothing is merged while a fetch is pending, and what aggregate
\* returns is determined by the value of each source's fetch taken in the
\* order of options.sources, whatever the order in which they settled.
C27_JoinInSourceOrder ==
  /\ (pc # "agg_done") => (merged = <<>> /\ meta = <<>> /\ results = <<>>)
  /\ (pc = "agg_done") =>
       LET srcs == options[1].sources
           bySource == [k \in 1..Len(srcs) |-> ValueAt(k)]
       IN  /\ \A k \in DOMAIN fetchers : fetchers[k].state = "fulfilled"
           /\ \A k \in 1..Len(srcs) : bySource[k].source = srcs[k]
           /\ merged = mergeResults(bySource, SortOf(options[1]), options[1].query)
           /\ meta[1].sources =
                [k \in 1..Len(srcs) |->
                   [name |-> srcs[k], count |-> Len(bySource[k].posts),
                    error |-> bySource[k].error]]

\* C27 witness: the second source settled first, both delivered posts of
\* equal timestamps, and the first source's posts still come first
C27_Witness ==
  /\ pc = "agg_done" /\ settled = <<2, 1>>
  /\ options[1].sources[1] # options[1].sources[2]
  /\ Len(ValueAt(1).posts) = 2 /\ Len(ValueAt(2).posts) = 1
  /\ Len(merged) = 2 /\ merged[2].source = options[1].sources[1]

\* C30: aggregate returns the post list of mergeResults and the meta object
\* of buildMeta for the same FetchResults, sort order and query.
C30_SameAsCliPath ==
  pc = "agg_done" =>
    /\ merged = mergeResults(results, SortOf(options[1]), options[1].query)
    /\ meta[1] = [f \in {"query", "sources", "timeframe", "totalPosts"} |->
                    buildMeta(results, options[1])[f]]

-----------------------------------------------------------------------------
(* Further properties of extractTerms                                      *)

\* the entry extractTerms accumulated for token t, an empty one if there is none
EntryOf(acc, t) ==
  IF \E e \in Range(acc) : e.token = t
  THEN CHOOSE e \in Range(acc) : e.token = t
  ELSE [token |-> t, weight |-> 0, postIds |-> {}]

\* the words of a token, in order
WordsOf(token) == SplitBlankFrom(token, 1, <<>>)

\* C29: the accumulated weight and the number of contributing posts of a
\* word of length >= 3 that is not a stop word are at least those of every
\* two-word token that has the word as a member.
C29_WordDominatesPair ==
  pc = "terms_done" =>
    LET acc == Accumulated
    IN  \A e \in Range(acc) :
          Len(WordsOf(e.token)) = 2 =>
            \A w \in Range(WordsOf(e.token)) :
              (LongEnough(w) /\ NotStopWord(w)) =>
                /\ EntryOf(acc, w).weight >= e.weight
                /\ Cardinality(EntryOf(acc, w).postIds) >= Cardinality(e.postIds)

-----------------------------------------------------------------------------
(* Properties of tokenize                                                  *)

\* the maximal runs of word characters of s from position i on, in order,
\* `cur` being the run under way
RECURSIVE WordRunsFrom(_, _, _)
WordRunsFrom(s, i, cur) ==
  IF i > Len(s) THEN (IF cur = <<>> THEN <<>> ELSE <<cur>>)
  ELSE IF IsWordChar(s[i]) THEN WordRunsFrom(s, i + 1, Append(cur, s[i]))
       ELSE (IF cur = <<>> THEN <<>> ELSE <<cur>>) \o WordRunsFrom(s, i + 1, <<>>)

\* the words of the text that have at least three characters
KeptWords == SelectSeq(WordRunsFrom(tokText, 1, <<>>), LAMBDA w : Len(w) >= 3)

\* the positions of the pairs of consecutive kept words that are not two stop words
KeptPairs ==
  {i \in 1..(Len(KeptWords) - 1) :
     ~(KeptWords[i] \in STOP_WORDS /\ KeptWords[i + 1] \in STOP_WORDS)}

\* the k-th smallest element of a set of numbers
NthOf(S, k) == CHOOSE i \in S : Cardinality({j \in S : j < i}) = k - 1

\* C25: the unigrams are exactly the words of length >= 3 that are not stop
\* words, in order; the bigrams are exactly the pairs of consecutive words
\* of length >= 3 of which at least one is not a stop word, in order.
C25_UnigramsAndBigrams ==
  pc = "tok_done" =>
    LET kept == KeptWords
        pairs == KeptPairs
        t == tokenized[1]
    IN  /\ t.unigrams = SelectSeq(kept, LAMBDA w : w \notin STOP_WORDS)
        /\ Len(t.bigrams) = Cardinality(pairs)
        /\ \A k \in 1..Len(t.bigrams) :
             t.bigrams[k] = kept[NthOf(pairs, k)] \o <<" ">> \o kept[NthOf(pairs, k) + 1]
        /\ \A k \in 1..Len(t.bigrams) :
             \E w \in Range(SplitBlankFrom(t.bigrams[k], 1, <<>>)) : w \notin STOP_WORDS

\* C25 witness: three words of length >= 3, the first two stop words: the
\* pair of stop words is left out and the pair with one stop word is kept
C25_Witness ==
  /\ pc = "tok_done"
  /\ Len(KeptWords) = 3
  /\ KeptWords[1] \in STOP_WORDS /\ KeptWords[2] \in STOP_WORDS
  /\ KeptWords[3] \notin STOP_WORDS
  /\ Len(tokenized[1].bigrams) = 1 /\ Len(tokenized[1].unigrams) = 1


-----------------------------------------------------------------------------
(* Properties of the fetchers                                              *)

\* the limit the caller asked for: options.limit, 25 when it is left out
LimitOf == IF fetchCall[1].limit = None THEN DefaultLimit ELSE fetchCall[1].limit[1]

\* C21: whatever the servers answer, the FetchResult of a fetcher holds at
\* most `limit` posts.
C21_AtMostLimit ==
  (pc = "fetch_done" /\ fetchResult[1].state = "fulfilled") =>
    Len(fetchResult[1].value.posts) <= LimitOf

\* C22: a fetcher's promise is fulfilled, never rejected, with a FetchResult
\* of the fetcher's own source, and posts is empty whenever error is set.
C22_AlwaysResolves ==
  pc = "fetch_done" =>
    /\ fetchResult[1].state = "fulfilled"
    /\ fetchResult[1].value.source = fetchCall[1].fetcher
    /\ fetchResult[1].value.error # None => fetchResult[1].value.posts = <<>>

\* C22 witness: the server of a fetcher failed with a network exception
\* and the promise was fulfilled with an error and no posts
C22_Witness ==
  /\ pc = "fetch_done"
  /\ fetchCall[1].answers # <<>>
  /\ fetchCall[1].answers[1].status = "network"
  /\ fetchResult[1].state = "fulfilled"
  /\ fetchResult[1].value.error = Some("network")
  /\ fetchResult[1].value.posts = <<>>

-----------------------------------------------------------------------------
(* Properties of the relay helpers                                         *)

\* the promise is never rejected
RelayNeverRejects == [](relay.promise \in {"pending", "resolved"})

\* a settled promise keeps its value, whatever is called afterwards
RelayResolvesOnce ==
  [][relay.promise = "resolved" =>
       (relay'.promise = "resolved" /\ relay'.value = relay.value)]_vars

\* the promise of a call is eventually resolved
RelayEventuallyResolves == <>(relay.promise = "resolved")

\* C26: the promise of a relay helper is never rejected, is eventually
\* resolved when its timer eventually fires, under every interleaving of the
\* socket's events, and a further call of resolve changes nothing.
C26_ResolvesNeverRejects ==
  RelayNeverRejects /\ RelayResolvesOnce /\ RelayEventuallyResolves

\* C26 witness: the socket never connected, its close() throws, the timer
\* fired and resolved the promise, and a later event called resolve again
C26_Witness ==
  /\ pc = "relay_running"
  /\ relay.closeThrows /\ relay.ws = "closed" /\ relay.timer = "fired"
  /\ relay.promise = "resolved" /\ relay.again

====
